---- MODULE Spec2Model ----
(***************************************************************************)
(* Model of src/mpmc_queue.cpp: the bounded lock-free MPMC queue           *)
(* (MPMCQueue<int>) driven by the producer()/consumer() test harness.      *)
(*                                                                         *)
(* Every access to an atomic (enqueue_pos_, dequeue_pos_, a cell's         *)
(* sequence, total_consumed) and every access to a cell's data is one      *)
(* step of the thread that performs it; threads interleave freely.  The    *)
(* local computation that follows an access (dif, the branch on it) is     *)
(* part of the step of that access.                                        *)
(***************************************************************************)
EXTENDS Integers, Naturals, FiniteSets, Sequences, Bags, TLC

(* ---- bounds of the model (the harness constants, scaled down) ---- *)
\* A run is the harness with NUM_PRODUCERS >= 1 producer threads, NUM_CONSUMERS
\* >= 1 consumer threads, ITEMS_PER_PRODUCER >= 1 and QUEUE_SIZE = 2^k, where
\*   NUM_PRODUCERS + NUM_CONSUMERS <= MaxThreads,
\*   NUM_PRODUCERS * ITEMS_PER_PRODUCER * NUM_CONSUMERS <= MaxWork
\*     (every consumer may race for every item),
\*   1 <= k <= MaxQueueLog.
MaxThreads == 3
MaxWork == 4
MaxQueueLog == 2

VARIABLES
    buffer_,         \* ring index -> [sequence, data]
    buffer_mask_,    \* buffer_size - 1
    ITEMS_PER_PRODUCER, \* the harness constant of this run
    enqueue_pos_,
    dequeue_pos_,
    total_consumed,  \* the harness' shared counter
    ppc, ppos, pi,   \* producer thread: position in the code, local pos, loop index i
    cpc, cpos, cval, \* consumer thread: position in the code, local pos, local val
    eclaims,         \* history: <<pos, val>> for every successful CAS on enqueue_pos_
    dclaims,         \* history: bag of positions claimed by a successful CAS on dequeue_pos_
    reads,           \* history: <<pos, val>> for every read of cell->data in dequeue
    got,             \* history: bag of the values returned by successful dequeues
    psaw,            \* history: producer's call has seen a moment with the queue full
    csaw,            \* history: consumer's call has seen a moment with the queue empty
    psnap,           \* history: highest position of a value whose enqueue had returned
                     \* true when the producer's call began (-1: none, or not in a call)
    constructed,     \* the MPMCQueue object: "no" (not yet constructed), "yes", "aborted"
    requested,       \* the buffer_size argument of the constructor
    wordBits,        \* width in bits of size_t and intptr_t; 0: so wide that no
                     \* counter or sequence comes near 2^(width - 1) in the run
    history          \* whether this run records the history variables above

\* AsyncLogProcessor (src/logger_system/AsyncLogProcessor.hpp) and its callers
VARIABLES
    queue_,          \* std::queue<LogMessage>: sequence of messages, front first
    queueMutex_,     \* << >> when free, else the thread that holds it
    stop_,
    strategies_,     \* the vector: TRUE for a strategy object, FALSE for a null pointer
    wpc, wmsg, wit,  \* worker thread: position in process(), its msg, index of the for loop
    lpc, lsent,      \* logging thread: position in enqueue(), messages it has enqueued
    iterations,      \* messages each logging thread enqueues
    dpc,             \* the thread that destroys the processor: position in the destructor
    logged,          \* what each strategy has been handed by log(msg), in order
    pushed           \* history: the messages in the order of queue_.push

\* ConfigurationManager (src/config_manager.cpp), its source, its readers
VARIABLES
    configStore,     \* key -> value; a value is <<type, v>>
    cfgWriter,       \* the shared_mutex: << >>, or the thread that holds it exclusively
    cfgReaders,      \* the shared_mutex: the threads that hold it shared
    sources,         \* the vector of sources: the data map of each MockSource
    validators,      \* key -> <<min, max>> of its RangeValidator
    observers,       \* the vector of weak_ptr: TRUE while the observer is alive
    upc,             \* the thread that updates sources: position in updateData / reload
    newStore,        \* reload's local map
    oit,             \* notifyObservers: index into observers
    updates,         \* updateData calls still to be made
    notified,        \* number of onConfigChanged calls made so far
    storeAtCall,     \* history: configStore when the current updateData call began
    notifiedAtCall,  \* history: notified when the current updateData call began
    gpc, gkey, gtype, gres,  \* reader thread: position in getValue<T>(key, default), result
    gcalls,          \* reader thread: getValue calls still to be made
    gsnap            \* history: configStore when the reader acquired the shared lock

\* BlockingQueue (src/mpmc_queue.cpp) under run_benchmark's producer()/consumer()
VARIABLES
    bqueue_,         \* queue_: the std::queue, front first
    bmutex_,         \* mutex_: << >> when free, else the thread that holds it
    not_empty_,      \* the consumers blocked on not_empty_
    not_full_,       \* the producers blocked on not_full_
    capacity_,
    bitems,          \* ITEMS_PER_PRODUCER of this run
    btotal,          \* run_benchmark's total_consumed
    benq, bi,        \* producer thread: position in producer() / enqueue, loop index i
    bdeq, bval,      \* consumer thread: position in consumer() / dequeue, its val
    bpushed,         \* history: the values in the order of queue_.push
    bpopped          \* history: the values in the order of queue_.pop

\* JobScheduler (src/scheduler.cpp), its thread and the thread that owns it
VARIABLES
    now,             \* Clock::now()
    pq,              \* the priority_queue: the set of the jobs in it
    mtx,             \* << >> when free, else the thread that holds it
    cv,              \* the threads blocked on cv
    is_stopped,
    counter,
    rpc,             \* scheduler thread: position in run()
    next_run_time,   \* run()'s local
    job,             \* run()'s local, << >> outside its scope
    mpc,             \* owner thread: position in schedule / recurringSchedule / ~JobScheduler
    newJob,          \* owner thread: the Job a schedule call is about to push
    scheduled,       \* history: the jobs pushed by schedule / recurringSchedule
    dispatched       \* history: per job id, the number of times run() took it to start it

\* CoffeeMachineContext (src/coffee_machine.cpp) and the threads that call it
VARIABLES
    state_,          \* the atomic MachineState
    ingredients_,    \* IngredientType -> currentQuantity, in tenths of a unit
    alerts,          \* number of LOW_INGREDIENTS notifications sent so far
    customers,       \* the threads that call the machine
    kpc,             \* calling thread: position in prepareCoffee / triggerMaintenance
    korder,          \* calling thread: <<coffeeTypeId, size>> of its prepareCoffee call
    calls,           \* calls of the public operations still to be made
    payments,        \* history: number of payments processed so far
    kentry,          \* history: <<state_, ingredients_, payments>> when the thread's call began
    kthrown          \* history: how the thread's last prepareCoffee call ended

\* ThreadPool (src/logger_system.md), its workers and the thread that owns it
VARIABLES
    tasks,           \* the task queue, front first: task ids
    queueMutex,      \* << >> when free, else the thread that holds it
    condition,       \* the workers blocked on condition
    stop,
    workers,         \* the worker threads
    tpc,             \* thread: position in the worker loop, or in the owner's calls
    epc,             \* thread: position in enqueue, "off" outside it
    ttask,           \* worker: the task it moved out of the queue, 0 when none
    joined,          \* ~ThreadPool: number of workers joined so far
    submits,         \* enqueue calls still to be made
    accepted,        \* history: the tasks enqueue added to the queue
    started,         \* history: per task, the number of times a worker called it
    finished,        \* history: the tasks that returned
    refused          \* history: number of enqueue calls that threw

mpmcVars == <<buffer_, buffer_mask_, ITEMS_PER_PRODUCER, enqueue_pos_, dequeue_pos_, total_consumed,
          ppc, ppos, pi, cpc, cpos, cval,
          eclaims, dclaims, reads, got, psaw, csaw, psnap, constructed, requested, wordBits,
          history>>

logVars == <<queue_, queueMutex_, stop_, strategies_, wpc, wmsg, wit, lpc, lsent,
             iterations, dpc, logged, pushed>>

cfgVars == <<configStore, cfgWriter, cfgReaders, sources, validators, observers, upc,
             newStore, oit, updates, notified, storeAtCall, notifiedAtCall,
             gpc, gkey, gtype, gres, gcalls, gsnap>>

bqVars == <<bqueue_, bmutex_, not_empty_, not_full_, capacity_, bitems, btotal,
            benq, bi, bdeq, bval, bpushed, bpopped>>

schVars == <<now, pq, mtx, cv, is_stopped, counter, rpc, next_run_time, job, mpc, newJob,
             scheduled, dispatched>>

cmVars == <<state_, ingredients_, alerts, customers, kpc, korder, calls, payments, kentry,
            kthrown>>

tpVars == <<tasks, queueMutex, condition, stop, workers, tpc, epc, ttask, joined, submits,
            accepted, started, finished, refused>>

lastVars == <<cmVars, tpVars>>

\* the parts of the repository modelled after the three above
moreVars == <<bqVars, schVars, lastVars>>

\* the parts of the repository other than the MPMC queue and its harness
others == <<logVars, cfgVars, moreVars>>

vars == <<mpmcVars, others>>

\* a part of the repository that is not running in the specification at hand
\* keeps the values below
LogIdle ==
    /\ queue_ = << >> /\ queueMutex_ = << >> /\ stop_ = FALSE /\ strategies_ = << >>
    /\ wpc = "off" /\ wmsg = << >> /\ wit = 0
    /\ lpc = << >> /\ lsent = << >> /\ iterations = 0
    /\ dpc = "off" /\ logged = << >> /\ pushed = << >>

BqIdle ==
    /\ bqueue_ = << >> /\ bmutex_ = << >> /\ not_empty_ = {} /\ not_full_ = {}
    /\ capacity_ = 0 /\ bitems = 0 /\ btotal = 0
    /\ benq = << >> /\ bi = << >> /\ bdeq = << >> /\ bval = << >>
    /\ bpushed = << >> /\ bpopped = << >>

\* the parts modelled after the first three are not running
SchIdle ==
    /\ now = 0 /\ pq = {} /\ mtx = << >> /\ cv = {} /\ is_stopped = FALSE /\ counter = 0
    /\ rpc = "off" /\ next_run_time = 0 /\ job = << >> /\ mpc = "off" /\ newJob = << >>
    /\ scheduled = {} /\ dispatched = << >>

CmIdle ==
    /\ state_ = "READY" /\ ingredients_ = << >> /\ alerts = 0 /\ customers = {}
    /\ kpc = << >> /\ korder = << >> /\ calls = 0 /\ payments = 0
    /\ kentry = << >> /\ kthrown = << >>

TpIdle ==
    /\ tasks = << >> /\ queueMutex = << >> /\ condition = {} /\ stop = FALSE
    /\ workers = {} /\ tpc = << >> /\ epc = << >> /\ ttask = << >>
    /\ joined = 0 /\ submits = 0
    /\ accepted = {} /\ started = << >> /\ finished = {} /\ refused = 0

LastIdle == CmIdle /\ TpIdle

MoreIdle == BqIdle /\ SchIdle /\ LastIdle

CfgIdle ==
    /\ configStore = << >> /\ cfgWriter = << >> /\ cfgReaders = {}
    /\ sources = << >> /\ validators = << >> /\ observers = << >>
    /\ upc = "off" /\ newStore = << >> /\ oit = 0 /\ updates = 0 /\ notified = 0
    /\ storeAtCall = << >> /\ notifiedAtCall = 0
    /\ gpc = << >> /\ gkey = << >> /\ gtype = << >> /\ gres = << >>
    /\ gcalls = << >> /\ gsnap = << >>

\* fixed at construction
fixed == <<buffer_mask_, ITEMS_PER_PRODUCER, constructed, requested, wordBits, history>>

qvars == <<buffer_, fixed, enqueue_pos_, dequeue_pos_>>

(* ---- arithmetic of the code ---- *)
RECURSIVE Pow2(_)
Pow2(n) == IF n = 0 THEN 1 ELSE 2 * Pow2(n - 1)

RECURSIVE BitAnd(_, _)
BitAnd(a, b) ==
    IF a = 0 \/ b = 0 THEN 0
    ELSE (a % 2) * (b % 2) + 2 * BitAnd(a \div 2, b \div 2)

\* A counter or a sequence is recorded with all the bits it would have in a
\* word without limit; what the program holds, and all it can observe, is
\* Word(x), the low wordBits bits.
Word(x) == IF wordBits = 0 THEN x ELSE x % Pow2(wordBits)

\* (intptr_t)x: the two's complement reading of the low wordBits bits
Signed(x) ==
    IF wordBits = 0 THEN x
    ELSE IF Word(x) >= Pow2(wordBits - 1) THEN Word(x) - Pow2(wordBits) ELSE Word(x)

\* what a - b on two intptr_t values can yield, wrapped being the two's
\* complement result: when the difference does not fit in intptr_t the
\* subtraction is undefined; a build either wraps or decides dif < 0 and
\* dif > 0 by comparing a with b, which gives the sign of the exact difference
DifOutcomes(wrapped, a, b) ==
    IF wordBits = 0 \/ a - b \in (-Pow2(wordBits - 1))..(Pow2(wordBits - 1) - 1)
    THEN {wrapped}
    ELSE {wrapped, a - b}

\* mutant: only the "buffer_size >= 2" half of the assertion
ValidSize_NoPow2Check(buffer_size) == buffer_size >= 2

\* buffer_size >= 2 && (buffer_size & (buffer_size - 1)) == 0
ValidSize(buffer_size) == buffer_size >= 2 /\ BitAnd(buffer_size, buffer_size - 1) = 0

\* &buffer_[pos & buffer_mask_]
CellIndex(pos) == BitAnd(pos, buffer_mask_)

\* mutant: the dequeue form of dif used in enqueue (a write-ready slot is
\* taken as occupied)
EnqDif_PlusOne(seq, pos) == seq - (pos + 1)

\* (intptr_t)seq - (intptr_t)pos
EnqDif(seq, pos) == Signed(seq - pos)

\* mutant: the enqueue form of dif used in dequeue (slot taken as readable
\* when it is write-ready)
DeqDif_NoPlusOne(seq, pos) == seq - pos

\* (intptr_t)seq - (intptr_t)(pos + 1)
DeqDif(seq, pos) == Signed(seq - (pos + 1))

\* mutant: the publish store writes pos (the slot stays write-ready)
PublishSeq_NoPlusOne(pos) == pos

\* cell->sequence.store(pos + 1)
PublishSeq(pos) == pos + 1

\* mutant: the release value taken from the start of the lap,
\* pos - (pos & mask) + capacity
ReleaseSeq_LapBase(pos) == pos - BitAnd(pos, buffer_mask_) + buffer_mask_ + 1

\* mutant: the "+ 1" of the release value left out (the slot never becomes
\* write-ready for the next lap)
ReleaseSeq_NoPlusOne(pos) == pos + buffer_mask_

\* cell->sequence.store(pos + buffer_mask_ + 1)
ReleaseSeq(pos) == pos + buffer_mask_ + 1

Producers == DOMAIN ppc
Consumers == DOMAIN cpc
Capacity == buffer_mask_ + 1
TotalItems == Cardinality(Producers) * ITEMS_PER_PRODUCER

\* int val = id * ITEMS_PER_PRODUCER + i
Val(id, i) == id * ITEMS_PER_PRODUCER + i

(* ---- history helpers ---- *)
\* values whose enqueue call has returned true
Returned ==
    {Val(p, i) : p \in Producers, i \in 0..(ITEMS_PER_PRODUCER - 1)} \cap
    UNION {{Val(p, i) : i \in 0..(pi[p] - 1)} \cup
           (IF ppc[p] = "ret_true" THEN {Val(p, pi[p])} ELSE {}) : p \in Producers}

\* values claimed by a consumer CAS (the position they were put at is claimed)
ClaimedVals == {e[2] : e \in {e \in eclaims : BagIn(e[1], dclaims)}}

\* resident values: positions claimed by a producer CAS and not yet claimed
\* by a consumer CAS
Resident == {e \in eclaims : ~BagIn(e[1], dclaims)}

\* "capacity values are resident", in the widest sense: a value counts as
\* resident from its producer's CAS on, whether or not it is published yet
FullNow == Cardinality(Resident) = Capacity

\* "every value whose enqueue has returned true has been claimed by a consumer"
EmptyNow == Returned \subseteq ClaimedVals

\* position at which value v was put (v is in at most one claim)
PosOf(v) == (CHOOSE e \in eclaims : e[2] = v)[1]

\* highest position of a value whose enqueue has returned true, -1 if none
MaxReturnedPos ==
    IF Returned = {} THEN -1
    ELSE CHOOSE m \in {PosOf(v) : v \in Returned} : \A v \in Returned : PosOf(v) <= m

InEnqueue(p) == ppc[p] \in {"loop", "cas", "reload", "write", "publish"}
InDequeue(c) == cpc[c] \in {"loop", "cas", "reload", "read", "release"}

(* ---- construction: MPMCQueue(buffer_size), main() ---- *)
\* a history variable changes only in a run that records history
Record(new, old) == IF history THEN new ELSE old

\* the sequence of slot i of a queue of the given size when both counters are
\* at, and every slot has been released: the first position from at on that
\* falls on slot i (i itself for at = 0, the constructor's value)
SeqAt(at, size, i) == at + ((i + size - (at % size)) % size)

\* The queue with both counters at, empty, and the harness about to start:
\* for at = 0 the state main is in after the constructor; for at > 0 the state
\* of a queue through which at values have passed before the harness starts.
SetupAt(h, w, at) ==
    \E k \in 1..MaxQueueLog, np \in 1..MaxThreads, nc \in 1..MaxThreads, n \in 1..MaxWork :
        /\ np + nc <= MaxThreads
        /\ np * n * nc <= MaxWork
        /\ w > 0 => k < w
        /\ ITEMS_PER_PRODUCER = n
        /\ ValidSize(Pow2(k))
        /\ requested = Pow2(k)
        /\ constructed = "yes"
        /\ wordBits = w
        /\ buffer_mask_ = Pow2(k) - 1
        /\ buffer_ = [i \in 0..(Pow2(k) - 1) |-> [sequence |-> SeqAt(at, Pow2(k), i), data |-> 0]]
        /\ enqueue_pos_ = at
        /\ dequeue_pos_ = at
        /\ total_consumed = 0
        /\ ppc = [p \in 0..(np - 1) |-> "call"]
        /\ ppos = [p \in 0..(np - 1) |-> 0]
        /\ pi = [p \in 0..(np - 1) |-> 0]
        /\ cpc = [c \in 0..(nc - 1) |-> "test"]
        /\ cpos = [c \in 0..(nc - 1) |-> 0]
        /\ cval = [c \in 0..(nc - 1) |-> 0]
        /\ eclaims = {}
        /\ dclaims = EmptyBag
        /\ reads = {}
        /\ got = EmptyBag
        /\ psaw = [p \in 0..(np - 1) |-> FALSE]
        /\ csaw = [c \in 0..(nc - 1) |-> FALSE]
        /\ psnap = [p \in 0..(np - 1) |-> -1]
        /\ history = h
        /\ LogIdle
        /\ CfgIdle
        /\ MoreIdle

Setup(h) == SetupAt(h, 0, 0)

Init == Setup(TRUE)

(* ---- history bookkeeping shared by all steps ---- *)
\* psaw/csaw accumulate FullNow/EmptyNow over the states of a call
Observe ==
    /\ psaw' = Record([p \in Producers |->
                  IF InEnqueue(p)' THEN (IF InEnqueue(p) THEN psaw[p] ELSE FullNow) \/ FullNow'
                  ELSE IF ppc'[p] = "ret_false" THEN psaw[p] ELSE FALSE], psaw)
    /\ csaw' = Record([c \in Consumers |->
                  IF InDequeue(c)' THEN (IF InDequeue(c) THEN csaw[c] ELSE EmptyNow) \/ EmptyNow'
                  ELSE IF cpc'[c] = "ret_false" THEN csaw[c] ELSE FALSE], csaw)
    /\ UNCHANGED others


histE == <<dclaims, reads, got>>
histD == <<eclaims, psnap>>
consumerVars == <<cpc, cpos, cval, total_consumed>>
producerVars == <<ppc, ppos, pi>>

(* ---- MPMCQueue::enqueue as called from producer() ---- *)
\* A call's local pos ends with the call: it is recorded as 0 outside a call.
\* consumer()'s val is never read by consumer(); it is recorded as 0 once the
\* returned value has been entered in the history (got).

\* producer(): while (!q.enqueue(val)); enqueue: size_t pos = enqueue_pos_.load()
EnqLoadPos(p) ==
    /\ ppc[p] = "call"
    /\ ppos' = [ppos EXCEPT ![p] = enqueue_pos_]
    /\ ppc' = [ppc EXCEPT ![p] = "loop"]
    /\ psnap' = Record([psnap EXCEPT ![p] = MaxReturnedPos], psnap)
    /\ UNCHANGED <<qvars, pi, consumerVars, eclaims, histE>>
    /\ Observe

\* mutant: "dif <= 0" instead of "dif == 0": a slot still occupied by the
\* previous lap is claimed
EnqBranch_ClaimOccupied(dif) ==
    IF dif <= 0 THEN "cas" ELSE "reload"

\* mutant: the dif < 0 and dif > 0 branches exchanged
EnqBranch_Swapped(dif) ==
    IF dif = 0 THEN "cas" ELSE IF dif < 0 THEN "reload" ELSE "ret_false"

\* the branch taken on dif = seq - pos
EnqBranch(dif) ==
    IF dif = 0 THEN "cas" ELSE IF dif < 0 THEN "ret_false" ELSE "reload"

\* mutant: cell->data is written before the slot is claimed, on every look at
\* the slot
EnqLoadSeq_WriteEarly(p) ==
    /\ ppc[p] = "loop"
    /\ LET branch == EnqBranch(EnqDif(buffer_[CellIndex(ppos[p])].sequence, ppos[p]))
       IN  /\ ppc' = [ppc EXCEPT ![p] = branch]
           /\ ppos' = [ppos EXCEPT ![p] = IF branch = "ret_false" THEN 0 ELSE @]
           /\ psnap' = [psnap EXCEPT ![p] = IF branch = "ret_false" THEN -1 ELSE @]
    /\ buffer_' = [buffer_ EXCEPT ![CellIndex(ppos[p])].data = Val(p, pi[p])]
    /\ UNCHANGED <<fixed, enqueue_pos_, dequeue_pos_, pi, consumerVars, eclaims, histE>>
    /\ Observe

\* seq = cell->sequence.load(acquire); dif = seq - pos; if / else if / else
EnqLoadSeq(p) ==
    /\ ppc[p] = "loop"
    /\ LET seq == buffer_[CellIndex(ppos[p])].sequence
       IN  \E dif \in DifOutcomes(EnqDif(seq, ppos[p]), Signed(seq), Signed(ppos[p])) :
             LET branch == EnqBranch(dif)
             IN  /\ ppc' = [ppc EXCEPT ![p] = branch]
                 /\ ppos' = [ppos EXCEPT ![p] = IF branch = "ret_false" THEN 0 ELSE @]
                 /\ psnap' = [psnap EXCEPT ![p] = IF branch = "ret_false" THEN -1 ELSE @]
    /\ UNCHANGED <<qvars, pi, consumerVars, eclaims, histE>>
    /\ Observe

\* mutant: a plain store of pos + 1 instead of the compare-and-swap
EnqCasOk_NoCompare(p) ==
    /\ ppc[p] = "cas"
    /\ enqueue_pos_' = ppos[p] + 1
    /\ ppc' = [ppc EXCEPT ![p] = "write"]
    /\ eclaims' = Record(eclaims \cup {<<ppos[p], Val(p, pi[p])>>}, eclaims)
    /\ UNCHANGED <<buffer_, fixed, dequeue_pos_, ppos, pi, consumerVars, psnap, histE>>
    /\ Observe

\* enqueue_pos_.compare_exchange_weak(pos, pos + 1) succeeds: the words are
\* equal, the counter receives Word(pos + 1), and pos is from now on the
\* position the counter had (the same number unless the counter has gone
\* once round the word since pos was loaded)
EnqCasOk(p) ==
    /\ ppc[p] = "cas"
    /\ Word(enqueue_pos_) = Word(ppos[p])
    /\ enqueue_pos_' = enqueue_pos_ + 1
    /\ ppos' = [ppos EXCEPT ![p] = enqueue_pos_]
    /\ ppc' = [ppc EXCEPT ![p] = "write"]
    /\ eclaims' = Record(eclaims \cup {<<enqueue_pos_, Val(p, pi[p])>>}, eclaims)
    /\ UNCHANGED <<buffer_, fixed, dequeue_pos_, pi, consumerVars, psnap, histE>>
    /\ Observe

\* mutant: the result of the compare-and-swap is ignored: a call whose CAS
\* failed goes on to write the slot
EnqCasFail_WriteAnyway(p) ==
    /\ ppc[p] = "cas"
    /\ ppc' = [ppc EXCEPT ![p] = "write"]
    /\ UNCHANGED <<qvars, ppos, pi, consumerVars, eclaims, psnap, histE>>
    /\ Observe

\* compare_exchange_weak fails: on a mismatch, or spuriously (the weak form
\* may fail although the values are equal); pos receives the value observed
EnqCasFail(p) ==
    /\ ppc[p] = "cas"
    /\ ppos' = [ppos EXCEPT ![p] = enqueue_pos_]
    /\ ppc' = [ppc EXCEPT ![p] = "loop"]
    /\ UNCHANGED <<qvars, pi, consumerVars, eclaims, psnap, histE>>
    /\ Observe

\* mutant: the reload takes the other role's counter
EnqReload_WrongCounter(p) ==
    /\ ppc[p] = "reload"
    /\ ppos' = [ppos EXCEPT ![p] = dequeue_pos_]
    /\ ppc' = [ppc EXCEPT ![p] = "loop"]
    /\ UNCHANGED <<qvars, pi, consumerVars, eclaims, psnap, histE>>
    /\ Observe

\* else: pos = enqueue_pos_.load()
EnqReload(p) ==
    /\ ppc[p] = "reload"
    /\ ppos' = [ppos EXCEPT ![p] = enqueue_pos_]
    /\ ppc' = [ppc EXCEPT ![p] = "loop"]
    /\ UNCHANGED <<qvars, pi, consumerVars, eclaims, psnap, histE>>
    /\ Observe

\* cell->data = data
EnqWrite(p) ==
    /\ ppc[p] = "write"
    /\ buffer_' = [buffer_ EXCEPT ![CellIndex(ppos[p])].data = Val(p, pi[p])]
    /\ ppc' = [ppc EXCEPT ![p] = "publish"]
    /\ UNCHANGED <<fixed, enqueue_pos_, dequeue_pos_, ppos, pi, consumerVars,
                   eclaims, psnap, histE>>
    /\ Observe

\* cell->sequence.store(pos + 1, release); return true
EnqPublish(p) ==
    /\ ppc[p] = "publish"
    /\ buffer_' = [buffer_ EXCEPT ![CellIndex(ppos[p])].sequence = PublishSeq(ppos[p])]
    /\ ppc' = [ppc EXCEPT ![p] = "ret_true"]
    /\ ppos' = [ppos EXCEPT ![p] = 0]
    /\ psnap' = [psnap EXCEPT ![p] = -1]
    /\ UNCHANGED <<fixed, enqueue_pos_, dequeue_pos_, pi, consumerVars,
                   eclaims, histE>>
    /\ Observe

\* producer(): enqueue returned true: ++i, next item or return
ProducerNext(p) ==
    /\ ppc[p] = "ret_true"
    /\ pi' = [pi EXCEPT ![p] = pi[p] + 1]
    /\ ppc' = [ppc EXCEPT ![p] = IF pi[p] + 1 < ITEMS_PER_PRODUCER THEN "call" ELSE "done"]
    /\ UNCHANGED <<qvars, ppos, consumerVars, eclaims, psnap, histE>>
    /\ Observe

\* producer(): enqueue returned false: std::this_thread::yield(), call again
ProducerRetry(p) ==
    /\ ppc[p] = "ret_false"
    /\ ppc' = [ppc EXCEPT ![p] = "call"]
    /\ UNCHANGED <<qvars, ppos, pi, consumerVars, eclaims, psnap, histE>>
    /\ Observe

(* ---- MPMCQueue::dequeue as called from consumer() ---- *)

\* consumer(): while (total_consumed.load() < NUM_PRODUCERS * ITEMS_PER_PRODUCER)
ConsumerTest(c) ==
    /\ cpc[c] = "test"
    /\ cpc' = [cpc EXCEPT ![c] = IF total_consumed < TotalItems THEN "call" ELSE "done"]
    /\ UNCHANGED <<qvars, total_consumed, cpos, cval, producerVars, histD, histE>>
    /\ Observe

\* size_t pos = dequeue_pos_.load()
DeqLoadPos(c) ==
    /\ cpc[c] = "call"
    /\ cpos' = [cpos EXCEPT ![c] = dequeue_pos_]
    /\ cpc' = [cpc EXCEPT ![c] = "loop"]
    /\ UNCHANGED <<qvars, total_consumed, cval, producerVars, histD, histE>>
    /\ Observe

\* mutant: the dif < 0 and dif > 0 branches exchanged
DeqBranch_Swapped(dif) ==
    IF dif = 0 THEN "cas" ELSE IF dif < 0 THEN "reload" ELSE "ret_false"

\* the branch taken on dif = seq - (pos + 1)
DeqBranch(dif) ==
    IF dif = 0 THEN "cas" ELSE IF dif < 0 THEN "ret_false" ELSE "reload"

\* seq = cell->sequence.load(acquire); dif = seq - (pos + 1); if / else if / else
DeqLoadSeq(c) ==
    /\ cpc[c] = "loop"
    /\ LET seq == buffer_[CellIndex(cpos[c])].sequence
       IN  \E dif \in DifOutcomes(DeqDif(seq, cpos[c]), Signed(seq), Signed(cpos[c] + 1)) :
             LET branch == DeqBranch(dif)
             IN  /\ cpc' = [cpc EXCEPT ![c] = branch]
                 /\ cpos' = [cpos EXCEPT ![c] = IF branch = "ret_false" THEN 0 ELSE @]
    /\ UNCHANGED <<qvars, total_consumed, cval, producerVars, histD, histE>>
    /\ Observe

\* mutant: a plain store of pos + 1 instead of the compare-and-swap
DeqCasOk_NoCompare(c) ==
    /\ cpc[c] = "cas"
    /\ dequeue_pos_' = cpos[c] + 1
    /\ cpc' = [cpc EXCEPT ![c] = "read"]
    /\ dclaims' = Record(dclaims (+) SetToBag({cpos[c]}), dclaims)
    /\ UNCHANGED <<buffer_, fixed, enqueue_pos_, total_consumed, cpos, cval,
                   producerVars, histD, reads, got>>
    /\ Observe

\* dequeue_pos_.compare_exchange_weak(pos, pos + 1) succeeds (see EnqCasOk)
DeqCasOk(c) ==
    /\ cpc[c] = "cas"
    /\ Word(dequeue_pos_) = Word(cpos[c])
    /\ dequeue_pos_' = dequeue_pos_ + 1
    /\ cpos' = [cpos EXCEPT ![c] = dequeue_pos_]
    /\ cpc' = [cpc EXCEPT ![c] = "read"]
    /\ dclaims' = Record(dclaims (+) SetToBag({dequeue_pos_}), dclaims)
    /\ UNCHANGED <<buffer_, fixed, enqueue_pos_, total_consumed, cval,
                   producerVars, histD, reads, got>>
    /\ Observe

\* compare_exchange_weak fails (mismatch or spurious); pos receives the value observed
DeqCasFail(c) ==
    /\ cpc[c] = "cas"
    /\ cpos' = [cpos EXCEPT ![c] = dequeue_pos_]
    /\ cpc' = [cpc EXCEPT ![c] = "loop"]
    /\ UNCHANGED <<qvars, total_consumed, cval, producerVars, histD, histE>>
    /\ Observe

\* else: pos = dequeue_pos_.load()
DeqReload(c) ==
    /\ cpc[c] = "reload"
    /\ cpos' = [cpos EXCEPT ![c] = dequeue_pos_]
    /\ cpc' = [cpc EXCEPT ![c] = "loop"]
    /\ UNCHANGED <<qvars, total_consumed, cval, producerVars, histD, histE>>
    /\ Observe

\* data = cell->data
DeqRead(c) ==
    /\ cpc[c] = "read"
    /\ cval' = [cval EXCEPT ![c] = buffer_[CellIndex(cpos[c])].data]
    /\ cpc' = [cpc EXCEPT ![c] = "release"]
    /\ reads' = Record(reads \cup {<<cpos[c], buffer_[CellIndex(cpos[c])].data>>}, reads)
    /\ UNCHANGED <<qvars, total_consumed, cpos, producerVars, histD, dclaims, got>>
    /\ Observe

\* cell->sequence.store(pos + buffer_mask_ + 1, release); return true
DeqRelease(c) ==
    /\ cpc[c] = "release"
    /\ buffer_' = [buffer_ EXCEPT ![CellIndex(cpos[c])].sequence = ReleaseSeq(cpos[c])]
    /\ cpc' = [cpc EXCEPT ![c] = "ret_true"]
    /\ got' = Record(got (+) SetToBag({cval[c]}), got)
    /\ cpos' = [cpos EXCEPT ![c] = 0]
    /\ cval' = [cval EXCEPT ![c] = 0]
    /\ UNCHANGED <<fixed, enqueue_pos_, dequeue_pos_, total_consumed,
                   producerVars, histD, dclaims, reads>>
    /\ Observe

\* consumer(): dequeue returned true: total_consumed.fetch_add(1)
ConsumerCount(c) ==
    /\ cpc[c] = "ret_true"
    /\ total_consumed' = total_consumed + 1
    /\ cpc' = [cpc EXCEPT ![c] = "test"]
    /\ UNCHANGED <<qvars, cpos, cval, producerVars, histD, histE>>
    /\ Observe

\* consumer(): dequeue returned false: std::this_thread::yield()
ConsumerRetry(c) ==
    /\ cpc[c] = "ret_false"
    /\ cpc' = [cpc EXCEPT ![c] = "test"]
    /\ UNCHANGED <<qvars, total_consumed, cpos, cval, producerVars, histD, histE>>
    /\ Observe

ProducerStep(p) ==
    \/ EnqLoadPos(p) \/ EnqLoadSeq(p) \/ EnqCasOk(p) \/ EnqCasFail(p) \/ EnqReload(p)
    \/ EnqWrite(p) \/ EnqPublish(p) \/ ProducerNext(p) \/ ProducerRetry(p)

ConsumerStep(c) ==
    \/ ConsumerTest(c) \/ DeqLoadPos(c) \/ DeqLoadSeq(c) \/ DeqCasOk(c) \/ DeqCasFail(c)
    \/ DeqReload(c) \/ DeqRead(c) \/ DeqRelease(c) \/ ConsumerCount(c) \/ ConsumerRetry(c)

Next ==
    \/ \E p \in Producers : EnqLoadPos(p)
    \/ \E p \in Producers : EnqLoadSeq(p)
    \/ \E p \in Producers : EnqCasOk(p)
    \/ \E p \in Producers : EnqCasFail(p)
    \/ \E p \in Producers : EnqReload(p)
    \/ \E p \in Producers : EnqWrite(p)
    \/ \E p \in Producers : EnqPublish(p)
    \/ \E p \in Producers : ProducerNext(p)
    \/ \E p \in Producers : ProducerRetry(p)
    \/ \E c \in Consumers : ConsumerTest(c)
    \/ \E c \in Consumers : DeqLoadPos(c)
    \/ \E c \in Consumers : DeqLoadSeq(c)
    \/ \E c \in Consumers : DeqCasOk(c)
    \/ \E c \in Consumers : DeqCasFail(c)
    \/ \E c \in Consumers : DeqReload(c)
    \/ \E c \in Consumers : DeqRead(c)
    \/ \E c \in Consumers : DeqRelease(c)
    \/ \E c \in Consumers : ConsumerCount(c)
    \/ \E c \in Consumers : ConsumerRetry(c)

Spec == Init /\ [][Next]_vars

(* ---- construction with an arbitrary buffer_size ---- *)
\* Before the constructor runs there is no queue and no thread; the argument
\* is any size up to one more than the largest capacity of the model.
CtorInit ==
    /\ requested \in 0..(Pow2(MaxQueueLog) + 1)
    /\ constructed = "no"
    /\ wordBits = 0
    /\ buffer_ = << >>
    /\ buffer_mask_ = 0
    /\ ITEMS_PER_PRODUCER = 0
    /\ enqueue_pos_ = 0
    /\ dequeue_pos_ = 0
    /\ total_consumed = 0
    /\ ppc = << >> /\ ppos = << >> /\ pi = << >>
    /\ cpc = << >> /\ cpos = << >> /\ cval = << >>
    /\ eclaims = {}
    /\ dclaims = EmptyBag
    /\ reads = {}
    /\ got = EmptyBag
    /\ psaw = << >> /\ csaw = << >> /\ psnap = << >>
    /\ history = TRUE
    /\ LogIdle
    /\ CfgIdle
    /\ MoreIdle

\* MPMCQueue(buffer_size): buffer_(buffer_size), buffer_mask_(buffer_size - 1),
\* then the assertion: a failed assert aborts the program; otherwise the slots
\* and counters are initialised and main starts the threads of the harness
Construct ==
    /\ constructed = "no"
    /\ IF ValidSize(requested)
       THEN \E np \in 1..MaxThreads, nc \in 1..MaxThreads, n \in 1..MaxWork :
              /\ np + nc <= MaxThreads
              /\ np * n * nc <= MaxWork
              /\ constructed' = "yes"
              /\ ITEMS_PER_PRODUCER' = n
              /\ buffer_mask_' = requested - 1
              /\ buffer_' = [i \in 0..(requested - 1) |-> [sequence |-> i, data |-> 0]]
              /\ ppc' = [p \in 0..(np - 1) |-> "call"]
              /\ ppos' = [p \in 0..(np - 1) |-> 0]
              /\ pi' = [p \in 0..(np - 1) |-> 0]
              /\ cpc' = [c \in 0..(nc - 1) |-> "test"]
              /\ cpos' = [c \in 0..(nc - 1) |-> 0]
              /\ cval' = [c \in 0..(nc - 1) |-> 0]
              /\ psaw' = [p \in 0..(np - 1) |-> FALSE]
              /\ csaw' = [c \in 0..(nc - 1) |-> FALSE]
              /\ psnap' = [p \in 0..(np - 1) |-> -1]
              /\ UNCHANGED <<enqueue_pos_, dequeue_pos_, total_consumed,
                             eclaims, dclaims, reads, got, requested, wordBits, history>>
       ELSE /\ constructed' = "aborted"
            /\ UNCHANGED <<buffer_, buffer_mask_, ITEMS_PER_PRODUCER, enqueue_pos_, wordBits,
                           dequeue_pos_, total_consumed, ppc, ppos, pi, cpc, cpos, cval,
                           eclaims, dclaims, reads, got, psaw, csaw, psnap,
                           requested, history>>
    /\ UNCHANGED others

CtorNext ==
    \/ Construct
    \/ Next

CtorSpec == CtorInit /\ [][CtorNext]_vars

\* Fair scheduling: every thread that can take a step eventually takes one
\* (weak fairness per thread), and compare_exchange_weak does not fail
\* spuriously forever: if again and again some CAS is attempted with the
\* expected value in place, some CAS eventually succeeds (strong fairness of
\* the successful CAS, over all threads together).
ThreadIds == 0..(MaxThreads - 2)

SomeCasOk ==
    \/ \E p \in Producers : EnqCasOk(p)
    \/ \E c \in Consumers : DeqCasOk(c)

Fairness ==
    /\ \A t \in ThreadIds : WF_vars(t \in Producers /\ ProducerStep(t))
    /\ \A t \in ThreadIds : WF_vars(t \in Consumers /\ ConsumerStep(t))
    /\ SF_vars(SomeCasOk)

\* the harness without history: termination concerns the program state only
LiveInit == Setup(FALSE)

LiveSpec == LiveInit /\ [][Next]_vars /\ Fairness

(* ---- the harness on a queue whose counters are about to wrap ---- *)
\* size_t and intptr_t of 2..MaxWordBits bits; the counters start one before
\* the sign of the word changes (2^(w - 1) - 1) or one before the word wraps
\* (2^w - 1), and the capacity is at most half the word (2^(w - 1))
MaxWordBits == 2

WrapInit ==
    \E w \in 2..MaxWordBits :
       \E at \in {Pow2(w - 1) - 1, Pow2(w) - 1} : SetupAt(TRUE, w, at)

WrapSpec == WrapInit /\ [][Next]_vars

(***************************************************************************)
(* AsyncLogProcessor: the worker thread (process), the logging threads     *)
(* (enqueue, called from Logger::log) and the destructor.  queue_ and      *)
(* stop_ are accessed under queueMutex_; every acquisition, every release  *)
(* together with what the holder did, every notify and every log(msg) of a *)
(* strategy is one step.                                                   *)
(***************************************************************************)
\* A run has 1..MaxLogThreads logging threads that enqueue `iterations`
\* messages each, at most MaxLogMsgs messages in all, and a strategies vector
\* of at most MaxStrategies entries, each a strategy or a null pointer.
MaxLogThreads == 2
MaxLogMsgs == 4
MaxStrategies == 2

LogThreads == DOMAIN lpc

\* the message of logging thread t's i-th call
Msg(t, i) == <<t, i>>

MpmcIdle ==
    /\ requested = 0 /\ constructed = "no" /\ wordBits = 0
    /\ buffer_ = << >> /\ buffer_mask_ = 0 /\ ITEMS_PER_PRODUCER = 0
    /\ enqueue_pos_ = 0 /\ dequeue_pos_ = 0 /\ total_consumed = 0
    /\ ppc = << >> /\ ppos = << >> /\ pi = << >>
    /\ cpc = << >> /\ cpos = << >> /\ cval = << >>
    /\ eclaims = {} /\ dclaims = EmptyBag /\ reads = {} /\ got = EmptyBag
    /\ psaw = << >> /\ csaw = << >> /\ psnap = << >>
    /\ history = TRUE

\* Logger(): asyncProcessor(strategies) has started the worker; main has added
\* the strategies; no message has been logged yet
LogInit ==
    /\ MpmcIdle
    /\ CfgIdle
    /\ MoreIdle
    /\ \E nt \in 1..MaxLogThreads, n \in 1..MaxLogMsgs :
          /\ nt * n <= MaxLogMsgs
          /\ lpc = [t \in 0..(nt - 1) |-> "call"]
          /\ lsent = [t \in 0..(nt - 1) |-> 0]
          /\ iterations = n
    /\ strategies_ \in UNION {[1..k -> BOOLEAN] : k \in 0..MaxStrategies}
    /\ logged = [s \in DOMAIN strategies_ |-> << >>]
    /\ queue_ = << >>
    /\ queueMutex_ = << >>
    /\ stop_ = FALSE
    /\ wpc = "lock" /\ wmsg = << >> /\ wit = 0
    /\ dpc = "nd"
    /\ pushed = << >>

\* queueCv_.notify_one(): the worker is the only thread that ever waits
NotifyOne == IF wpc = "blocked" THEN "relock" ELSE wpc

(* ---- process() ---- *)
\* std::unique_lock<std::mutex> lock(queueMutex_)
WorkerLock ==
    /\ wpc = "lock"
    /\ queueMutex_ = << >>
    /\ queueMutex_' = <<"worker">>
    /\ wpc' = "wait"
    /\ UNCHANGED <<queue_, stop_, strategies_, wmsg, wit, lpc, lsent, iterations, dpc,
                   logged, pushed, mpmcVars, cfgVars, moreVars>>

\* queueCv_.wait(lock, pred) is while (!pred()) wait(lock): with the mutex
\* held, pred is evaluated
WorkerWait ==
    /\ wpc = "wait"
    /\ wpc' = IF queue_ # << >> \/ stop_ THEN "check" ELSE "block"
    /\ UNCHANGED <<queue_, queueMutex_, stop_, strategies_, wmsg, wit, lpc, lsent,
                   iterations, dpc, logged, pushed, mpmcVars, cfgVars, moreVars>>

\* wait(lock): the mutex is released and the thread blocks, atomically
WorkerBlock ==
    /\ wpc = "block"
    /\ wpc' = "blocked"
    /\ queueMutex_' = << >>
    /\ UNCHANGED <<queue_, stop_, strategies_, wmsg, wit, lpc, lsent, iterations, dpc,
                   logged, pushed, mpmcVars, cfgVars, moreVars>>

\* a condition variable may wake without a notify
WorkerSpuriousWake ==
    /\ wpc = "blocked"
    /\ wpc' = "relock"
    /\ UNCHANGED <<queue_, queueMutex_, stop_, strategies_, wmsg, wit, lpc, lsent,
                   iterations, dpc, logged, pushed, mpmcVars, cfgVars, moreVars>>

\* wait re-acquires the mutex after a wake-up and evaluates pred again
WorkerRelock ==
    /\ wpc = "relock"
    /\ queueMutex_ = << >>
    /\ queueMutex_' = <<"worker">>
    /\ wpc' = "wait"
    /\ UNCHANGED <<queue_, stop_, strategies_, wmsg, wit, lpc, lsent, iterations, dpc,
                   logged, pushed, mpmcVars, cfgVars, moreVars>>

\* mutant: "if (stop_) return;": the worker leaves without draining the queue
WorkerCheck_ExitOnStop ==
    /\ wpc = "check"
    /\ IF stop_
       THEN /\ wpc' = "done"
            /\ UNCHANGED <<queue_, wmsg, wit>>
       ELSE /\ wmsg' = Head(queue_)
            /\ queue_' = Tail(queue_)
            /\ wit' = 1
            /\ wpc' = "dispatch"
    /\ queueMutex_' = << >>
    /\ UNCHANGED <<stop_, strategies_, lpc, lsent, iterations, dpc, logged, pushed, mpmcVars, cfgVars, moreVars>>

\* if (stop_ && queue_.empty()) return;  msg = queue_.front(); queue_.pop();
\* lock.unlock()  (the return releases the mutex as well)
WorkerCheck ==
    /\ wpc = "check"
    /\ IF stop_ /\ queue_ = << >>
       THEN /\ wpc' = "done"
            /\ UNCHANGED <<queue_, wmsg, wit>>
       ELSE /\ wmsg' = Head(queue_)
            /\ queue_' = Tail(queue_)
            /\ wit' = 1
            /\ wpc' = "dispatch"
    /\ queueMutex_' = << >>
    /\ UNCHANGED <<stop_, strategies_, lpc, lsent, iterations, dpc, logged, pushed, mpmcVars, cfgVars, moreVars>>

\* for (auto& strategy : strategies_) if (strategy) strategy->log(msg);
\* one step per element of the vector; after the last one, the next round
WorkerDispatch ==
    /\ wpc = "dispatch"
    /\ IF wit <= Len(strategies_)
       THEN /\ logged' = IF strategies_[wit]
                         THEN [logged EXCEPT ![wit] = Append(@, wmsg)]
                         ELSE logged
            /\ wit' = wit + 1
            /\ UNCHANGED <<wpc, wmsg>>
       ELSE /\ wpc' = "lock"
            /\ wmsg' = << >>
            /\ wit' = 0
            /\ UNCHANGED logged
    /\ UNCHANGED <<queue_, queueMutex_, stop_, strategies_, lpc, lsent, iterations, dpc,
                   pushed, mpmcVars, cfgVars, moreVars>>

(* ---- enqueue(msg), called by a logging thread ---- *)
\* An object is destroyed only when no other thread is inside one of its
\* member functions, and no member function is called once destruction has
\* begun: a logging thread starts a call only while dpc = "nd".

\* std::lock_guard<std::mutex> lock(queueMutex_)
EnqueueLock(t) ==
    /\ lpc[t] = "call"
    /\ dpc = "nd"
    /\ queueMutex_ = << >>
    /\ queueMutex_' = <<"log", t>>
    /\ lpc' = [lpc EXCEPT ![t] = "push"]
    /\ UNCHANGED <<queue_, stop_, strategies_, wpc, wmsg, wit, lsent, iterations, dpc,
                   logged, pushed, mpmcVars, cfgVars, moreVars>>

\* mutant: the message is pushed at the front of the queue
EnqueuePush_Front(t) ==
    /\ lpc[t] = "push"
    /\ queue_' = <<Msg(t, lsent[t])>> \o queue_
    /\ pushed' = Append(pushed, Msg(t, lsent[t]))
    /\ queueMutex_' = << >>
    /\ lpc' = [lpc EXCEPT ![t] = "notify"]
    /\ UNCHANGED <<stop_, strategies_, wpc, wmsg, wit, lsent, iterations, dpc, logged,
                   mpmcVars, cfgVars, moreVars>>

\* queue_.push(std::move(msg)); end of the lock_guard's scope
EnqueuePush(t) ==
    /\ lpc[t] = "push"
    /\ queue_' = Append(queue_, Msg(t, lsent[t]))
    /\ pushed' = Append(pushed, Msg(t, lsent[t]))
    /\ queueMutex_' = << >>
    /\ lpc' = [lpc EXCEPT ![t] = "notify"]
    /\ UNCHANGED <<stop_, strategies_, wpc, wmsg, wit, lsent, iterations, dpc, logged,
                   mpmcVars, cfgVars, moreVars>>

\* queueCv_.notify_one(); return; the thread's next call, if it has one
EnqueueNotify(t) ==
    /\ lpc[t] = "notify"
    /\ wpc' = NotifyOne
    /\ lsent' = [lsent EXCEPT ![t] = @ + 1]
    /\ lpc' = [lpc EXCEPT ![t] = IF lsent[t] + 1 < iterations THEN "call" ELSE "done"]
    /\ UNCHANGED <<queue_, queueMutex_, stop_, strategies_, wmsg, wit, iterations, dpc,
                   logged, pushed, mpmcVars, cfgVars, moreVars>>

(* ---- ~AsyncLogProcessor() ---- *)
\* the destructor is entered, at any moment at which no thread is inside
\* enqueue
DtorBegin ==
    /\ dpc = "nd"
    /\ \A t \in LogThreads : lpc[t] \in {"call", "done"}
    /\ dpc' = "lock"
    /\ UNCHANGED <<queue_, queueMutex_, stop_, strategies_, wpc, wmsg, wit, lpc, lsent,
                   iterations, logged, pushed, mpmcVars, cfgVars, moreVars>>

\* mutant: stop_ = true without the lock_guard (stop_ is an atomic), so the
\* store can fall between the worker's test of pred and its blocking
DtorLock_Unlocked ==
    /\ dpc = "lock"
    /\ stop_' = TRUE
    /\ dpc' = "notify"
    /\ UNCHANGED <<queue_, queueMutex_, strategies_, wpc, wmsg, wit, lpc, lsent,
                   iterations, logged, pushed, mpmcVars, cfgVars, moreVars>>

\* std::lock_guard<std::mutex> lock(queueMutex_)
DtorLock ==
    /\ dpc = "lock"
    /\ queueMutex_ = << >>
    /\ queueMutex_' = <<"dtor">>
    /\ dpc' = "set"
    /\ UNCHANGED <<queue_, stop_, strategies_, wpc, wmsg, wit, lpc, lsent, iterations,
                   logged, pushed, mpmcVars, cfgVars, moreVars>>

\* stop_ = true; end of the lock_guard's scope
DtorSet ==
    /\ dpc = "set"
    /\ stop_' = TRUE
    /\ queueMutex_' = << >>
    /\ dpc' = "notify"
    /\ UNCHANGED <<queue_, strategies_, wpc, wmsg, wit, lpc, lsent, iterations,
                   logged, pushed, mpmcVars, cfgVars, moreVars>>

\* queueCv_.notify_one()
DtorNotify ==
    /\ dpc = "notify"
    /\ wpc' = NotifyOne
    /\ dpc' = "join"
    /\ UNCHANGED <<queue_, queueMutex_, stop_, strategies_, wmsg, wit, lpc, lsent,
                   iterations, logged, pushed, mpmcVars, cfgVars, moreVars>>

\* if (workerThread_.joinable()) workerThread_.join(): returns once process()
\* has returned
DtorJoin ==
    /\ dpc = "join"
    /\ wpc = "done"
    /\ dpc' = "returned"
    /\ UNCHANGED <<queue_, queueMutex_, stop_, strategies_, wpc, wmsg, wit, lpc, lsent,
                   iterations, logged, pushed, mpmcVars, cfgVars, moreVars>>

WorkerStep ==
    \/ WorkerLock \/ WorkerWait \/ WorkerBlock \/ WorkerRelock \/ WorkerCheck
    \/ WorkerDispatch

LoggingStep(t) ==
    \/ EnqueueLock(t) \/ EnqueuePush(t) \/ EnqueueNotify(t)

DtorStep ==
    \/ DtorLock \/ DtorSet \/ DtorNotify \/ DtorJoin

LogNext ==
    \/ WorkerLock
    \/ WorkerWait
    \/ WorkerBlock
    \/ WorkerSpuriousWake
    \/ WorkerRelock
    \/ WorkerCheck
    \/ WorkerDispatch
    \/ \E t \in LogThreads : EnqueueLock(t)
    \/ \E t \in LogThreads : EnqueuePush(t)
    \/ \E t \in LogThreads : EnqueueNotify(t)
    \/ DtorBegin
    \/ DtorLock
    \/ DtorSet
    \/ DtorNotify
    \/ DtorJoin

LogSpec == LogInit /\ [][LogNext]_vars

\* Fair scheduling of the threads: a thread that can take a step eventually
\* takes one, and the destructor, once it asks for the mutex, gets it if the
\* mutex is free again and again (the worker, woken without a notify again
\* and again, cannot keep it away for ever).  No fairness is assumed for a
\* wake-up without a notify, nor for the moment at which the owner decides to
\* destroy the processor.
LogThreadIds == 0..(MaxLogThreads - 1)

LogFairness ==
    /\ WF_vars(WorkerStep)
    /\ WF_vars(DtorStep)
    /\ \A t \in LogThreadIds : WF_vars(t \in LogThreads /\ LoggingStep(t))
    /\ SF_vars(DtorLock)

LogLiveSpec == LogInit /\ [][LogNext]_vars /\ LogFairness

(***************************************************************************)
(* ConfigurationManager: one thread changes a source (MockSource::         *)
(* updateData, whose callback runs reload() and notifyObservers() on that  *)
(* thread) while reader threads call getValue<T>.  Every acquisition and   *)
(* release of the shared_mutex and every access to configStore is a step.  *)
(***************************************************************************)
\* A run has nr >= 1 reader threads that make ng >= 1 getValue calls each,
\* ns >= 1 sources, no >= 0 registered observers and makes nu >= 1 updateData
\* calls, where 3 * nr + 2 * nu + ns + no + ng <= MaxCfgSize (a thread and an
\* update add more behaviours than a source or an observer, and count for
\* more).  The validator of main, RangeValidator(1, 1000), is scaled to
\* RangeValidator(RangeMin, RangeMax); the int values are 0..RangeMax + 1, one
\* below and one above the range.
MaxCfgSize == 11
RangeMin == 1
RangeMax == 2

Keys == {"max_connections", "app_name", "debug_mode"}
IntValue(n) == <<"int", n>>
BoolValue(b) == <<"bool", IF b THEN 1 ELSE 0>>
StringValue(n) == <<"string", n>>
\* the values updateData is called with
UpdateValues == {IntValue(n) : n \in 0..(RangeMax + 1)} \cup {BoolValue(TRUE), BoolValue(FALSE)}
\* the keys updateData is called with in main
UpdateKeys == {"max_connections", "debug_mode"}
\* the keys getValue is called with in main and in LoggerService
GetKeys == {"max_connections", "debug_mode"}
\* the defaultValue argument of getValue
DefaultValue == <<"default", 0>>

\* MockSource(): max_connections = 100 (scaled: the low end of the range),
\* app_name = "MyApp", debug_mode = true
MockSourceData ==
    [k \in Keys |-> CASE k = "max_connections" -> IntValue(RangeMin)
                      [] k = "app_name" -> StringValue(0)
                      [] k = "debug_mode" -> BoolValue(TRUE)]

\* mutant: a key that is in newStore already keeps its value
Override_FirstWins(store, data) ==
    [k \in DOMAIN store \cup DOMAIN data |-> IF k \in DOMAIN store THEN store[k] ELSE data[k]]

\* for (const auto& [key, value] : data) newStore[key] = value
Override(store, data) ==
    [k \in DOMAIN store \cup DOMAIN data |-> IF k \in DOMAIN data THEN data[k] ELSE store[k]]

\* for (const auto& source : sources): the sources in addSource order
RECURSIVE MergeUpTo(_)
MergeUpTo(i) ==
    IF i = 0 THEN << >> ELSE Override(MergeUpTo(i - 1), sources[i])

\* RangeValidator::validate
Validate(range, value) ==
    IF value[1] = "int" THEN value[2] >= range[1] /\ value[2] <= range[2] ELSE TRUE

\* the validation loop of reload finds a key whose validator refuses its value
ValidationFails(store) ==
    \E key \in DOMAIN store :
        key \in DOMAIN validators /\ ~Validate(validators[key], store[key])

Readers == DOMAIN gpc

\* main: addValidator, addSource (each with its reload of valid data),
\* registerObserver; the initial reads are over
CfgInit ==
    /\ MpmcIdle
    /\ LogIdle
    /\ MoreIdle
    /\ validators = [k \in {"max_connections"} |-> <<RangeMin, RangeMax>>]
    /\ configStore = MockSourceData
    /\ cfgWriter = << >> /\ cfgReaders = {}
    /\ upc = "idle" /\ newStore = << >> /\ oit = 0 /\ notified = 0
    /\ storeAtCall = MockSourceData /\ notifiedAtCall = 0
    /\ \E nr \in 1..MaxCfgSize, nu \in 1..MaxCfgSize, ns \in 1..MaxCfgSize,
          no \in 0..MaxCfgSize, ng \in 1..MaxCfgSize :
          /\ 3 * nr + 2 * nu + ns + no + ng <= MaxCfgSize
          /\ sources = [i \in 1..ns |-> MockSourceData]
          /\ observers \in [1..no -> BOOLEAN]
          /\ updates = nu
          /\ gpc = [r \in 1..nr |-> "idle"]
          /\ gkey = [r \in 1..nr |-> "app_name"]
          /\ gtype = [r \in 1..nr |-> "string"]
          /\ gres = [r \in 1..nr |-> DefaultValue]
          /\ gcalls = [r \in 1..nr |-> ng]
          /\ gsnap = [r \in 1..nr |-> << >>]

readerVars == <<gpc, gkey, gtype, gres, gcalls, gsnap>>
observerVars == <<observers, oit, notified>>

(* ---- MockSource::updateData and ConfigurationManager::reload ---- *)
\* data[key] = value; if (callback) callback(): the callback set by addSource
\* calls reload()
UpdateData(src, key, value) ==
    /\ upc = "idle"
    /\ updates > 0
    /\ sources' = [sources EXCEPT ![src] = Override(@, [k \in {key} |-> value])]
    /\ updates' = updates - 1
    /\ storeAtCall' = configStore
    /\ notifiedAtCall' = notified
    /\ upc' = "rlock"
    /\ UNCHANGED <<configStore, cfgWriter, cfgReaders, validators, newStore, observerVars,
                   readerVars, mpmcVars, logVars, moreVars>>

\* std::unique_lock<std::shared_mutex> lock(mutex)
ReloadLock ==
    /\ upc = "rlock"
    /\ cfgWriter = << >> /\ cfgReaders = {}
    /\ cfgWriter' = <<"updater">>
    /\ upc' = "merge"
    /\ UNCHANGED <<configStore, cfgReaders, sources, validators, newStore, updates,
                   storeAtCall, notifiedAtCall, observerVars, readerVars, mpmcVars, logVars, moreVars>>

\* the loop over sources that fills newStore
ReloadMerge ==
    /\ upc = "merge"
    /\ newStore' = MergeUpTo(Len(sources))
    /\ upc' = "validate"
    /\ UNCHANGED <<configStore, cfgWriter, cfgReaders, sources, validators, updates,
                   storeAtCall, notifiedAtCall, observerVars, readerVars, mpmcVars, logVars, moreVars>>

\* mutant: a failed validation is reported but the reload goes on
ReloadValidate_NoAbort ==
    /\ upc = "validate"
    /\ upc' = "swap"
    /\ UNCHANGED <<configStore, cfgWriter, cfgReaders, sources, validators, newStore,
                   updates, storeAtCall, notifiedAtCall, observerVars, readerVars,
                   mpmcVars, logVars, moreVars>>

\* the validation loop: on the first key that fails, return (the lock is
\* released by the unique_lock's destructor); otherwise go on
ReloadValidate ==
    /\ upc = "validate"
    /\ IF ValidationFails(newStore)
       THEN /\ upc' = "idle"
            /\ cfgWriter' = << >>
            /\ newStore' = << >>
       ELSE /\ upc' = "swap"
            /\ UNCHANGED <<cfgWriter, newStore>>
    /\ UNCHANGED <<configStore, cfgReaders, sources, validators, updates,
                   storeAtCall, notifiedAtCall, observerVars, readerVars, mpmcVars, logVars, moreVars>>

\* configStore = std::move(newStore)
ReloadSwap ==
    /\ upc = "swap"
    /\ configStore' = newStore
    /\ upc' = "unlock"
    /\ UNCHANGED <<cfgWriter, cfgReaders, sources, validators, newStore, updates,
                   storeAtCall, notifiedAtCall, observerVars, readerVars, mpmcVars, logVars, moreVars>>

\* mutant: the observers are notified with the exclusive lock still held
ReloadUnlock_KeepLock ==
    /\ upc = "unlock"
    /\ newStore' = << >>
    /\ upc' = "notify"
    /\ oit' = 1
    /\ UNCHANGED <<configStore, cfgWriter, cfgReaders, sources, validators, updates,
                   storeAtCall, notifiedAtCall, observers, notified, readerVars,
                   mpmcVars, logVars, moreVars>>

\* lock.unlock(); notifyObservers() begins
ReloadUnlock ==
    /\ upc = "unlock"
    /\ cfgWriter' = << >>
    /\ newStore' = << >>
    /\ upc' = "notify"
    /\ oit' = 1
    /\ UNCHANGED <<configStore, cfgReaders, sources, validators, updates,
                   storeAtCall, notifiedAtCall, observers, notified, readerVars,
                   mpmcVars, logVars, moreVars>>

\* notifyObservers: one element of observers per step.  An observer that is
\* alive is called: LoggerService::onConfigChanged calls getValue<bool>, which
\* takes the shared lock on this thread.  An expired one is erased.
NotifyObservers ==
    /\ upc = "notify"
    /\ IF oit <= Len(observers)
       THEN IF observers[oit]
            THEN /\ cfgWriter = << >>
                 /\ notified' = notified + 1
                 /\ oit' = oit + 1
                 /\ UNCHANGED <<observers, upc>>
            ELSE /\ observers' = [i \in 1..(Len(observers) - 1) |->
                                     IF i < oit THEN observers[i] ELSE observers[i + 1]]
                 /\ UNCHANGED <<notified, oit, upc>>
       ELSE /\ upc' = "idle"
            /\ oit' = 0
            /\ UNCHANGED <<observers, notified>>
    /\ UNCHANGED <<configStore, cfgWriter, cfgReaders, sources, validators, newStore,
                   updates, storeAtCall, notifiedAtCall, readerVars, mpmcVars, logVars, moreVars>>

updaterVars == <<configStore, cfgWriter, sources, validators, upc, newStore, updates,
                 storeAtCall, notifiedAtCall, observerVars>>

(* ---- ConfigurationManager::getValue<T>(key, defaultValue) ---- *)
\* mutant: getValue without the shared_lock
GetLock_NoLock(r, key, type) ==
    /\ gpc[r] = "idle"
    /\ gcalls[r] > 0
    /\ gkey' = [gkey EXCEPT ![r] = key]
    /\ gtype' = [gtype EXCEPT ![r] = type]
    /\ gcalls' = [gcalls EXCEPT ![r] = @ - 1]
    /\ gsnap' = [gsnap EXCEPT ![r] = configStore]
    /\ gpc' = [gpc EXCEPT ![r] = "find"]
    /\ UNCHANGED <<cfgReaders, gres, updaterVars, mpmcVars, logVars, moreVars>>

\* std::shared_lock<std::shared_mutex> lock(mutex)
GetLock(r, key, type) ==
    /\ gpc[r] = "idle"
    /\ gcalls[r] > 0
    /\ cfgWriter = << >>
    /\ cfgReaders' = cfgReaders \cup {r}
    /\ gkey' = [gkey EXCEPT ![r] = key]
    /\ gtype' = [gtype EXCEPT ![r] = type]
    /\ gcalls' = [gcalls EXCEPT ![r] = @ - 1]
    /\ gsnap' = [gsnap EXCEPT ![r] = configStore]
    /\ gpc' = [gpc EXCEPT ![r] = "find"]
    /\ UNCHANGED <<gres, updaterVars, mpmcVars, logVars, moreVars>>

\* if (configStore.find(key) != configStore.end()), else return defaultValue
GetFind(r) ==
    /\ gpc[r] = "find"
    /\ IF gkey[r] \in DOMAIN configStore
       THEN /\ gpc' = [gpc EXCEPT ![r] = "holds"]
            /\ UNCHANGED <<gres, cfgReaders>>
       ELSE /\ gpc' = [gpc EXCEPT ![r] = "ret"]
            /\ gres' = [gres EXCEPT ![r] = DefaultValue]
            /\ cfgReaders' = cfgReaders \ {r}
    /\ UNCHANGED <<gkey, gtype, gcalls, gsnap, updaterVars, mpmcVars, logVars, moreVars>>

\* if (std::holds_alternative<T>(configStore.at(key))), else return
\* defaultValue; at() throws when the key is not there
GetHolds(r) ==
    /\ gpc[r] = "holds"
    /\ IF gkey[r] \notin DOMAIN configStore
       THEN /\ gpc' = [gpc EXCEPT ![r] = "threw"]
            /\ cfgReaders' = cfgReaders \ {r}
            /\ UNCHANGED gres
       ELSE IF configStore[gkey[r]][1] = gtype[r]
       THEN /\ gpc' = [gpc EXCEPT ![r] = "get"]
            /\ UNCHANGED <<gres, cfgReaders>>
       ELSE /\ gpc' = [gpc EXCEPT ![r] = "ret"]
            /\ gres' = [gres EXCEPT ![r] = DefaultValue]
            /\ cfgReaders' = cfgReaders \ {r}
    /\ UNCHANGED <<gkey, gtype, gcalls, gsnap, updaterVars, mpmcVars, logVars, moreVars>>

\* return std::get<T>(configStore.at(key)): at() throws when the key is not
\* there, std::get<T> when the value holds another type
GetGet(r) ==
    /\ gpc[r] = "get"
    /\ IF gkey[r] \in DOMAIN configStore /\ configStore[gkey[r]][1] = gtype[r]
       THEN /\ gpc' = [gpc EXCEPT ![r] = "ret"]
            /\ gres' = [gres EXCEPT ![r] = configStore[gkey[r]]]
       ELSE /\ gpc' = [gpc EXCEPT ![r] = "threw"]
            /\ UNCHANGED gres
    /\ cfgReaders' = cfgReaders \ {r}
    /\ UNCHANGED <<gkey, gtype, gcalls, gsnap, updaterVars, mpmcVars, logVars, moreVars>>

\* the caller has the value; with it the call and its locals end
GetReturn(r) ==
    /\ gpc[r] = "ret"
    /\ gpc' = [gpc EXCEPT ![r] = "idle"]
    /\ gkey' = [gkey EXCEPT ![r] = "app_name"]
    /\ gtype' = [gtype EXCEPT ![r] = "string"]
    /\ gres' = [gres EXCEPT ![r] = DefaultValue]
    /\ gsnap' = [gsnap EXCEPT ![r] = << >>]
    /\ UNCHANGED <<cfgReaders, gcalls, updaterVars, mpmcVars, logVars, moreVars>>

\* the T of getValue<T> in main and in LoggerService
ValueTypes == {"int", "bool"}

CfgNext ==
    \/ \E src \in DOMAIN sources, key \in UpdateKeys, value \in UpdateValues :
          UpdateData(src, key, value)
    \/ ReloadLock
    \/ ReloadMerge
    \/ ReloadValidate
    \/ ReloadSwap
    \/ ReloadUnlock
    \/ NotifyObservers
    \/ \E r \in Readers, key \in GetKeys, type \in ValueTypes : GetLock(r, key, type)
    \/ \E r \in Readers : GetFind(r)
    \/ \E r \in Readers : GetHolds(r)
    \/ \E r \in Readers : GetGet(r)
    \/ \E r \in Readers : GetReturn(r)

CfgSpec == CfgInit /\ [][CfgNext]_vars

(***************************************************************************)
(* BlockingQueue under run_benchmark: producer() and consumer() threads.   *)
(* Every acquisition and release of mutex_, every evaluation of a wait     *)
(* predicate, the block that follows a false predicate, every wake-up      *)
(* (notified, spurious, timed out), every push, pop and notify_one is a    *)
(* step.                                                                    *)
(***************************************************************************)
\* A run has NUM_PRODUCERS + NUM_CONSUMERS <= MaxThreads threads with
\* NUM_PRODUCERS * ITEMS_PER_PRODUCER * NUM_CONSUMERS <= MaxWork, as for the
\* lock-free queue, and a capacity_ of 1..MaxBqCapacity that is no more than
\* the number of items of the run (a larger queue is never full, as one that
\* holds them all).
MaxBqCapacity == 2

BqProducers == DOMAIN benq
BqConsumers == DOMAIN bdeq
BqTotalItems == Cardinality(BqProducers) * bitems

\* int val = id * ITEMS_PER_PRODUCER + i
BqVal(id, i) == id * bitems + i

\* the threads, as holders of mutex_
BqP(p) == <<"producer", p>>
BqC(c) == <<"consumer", c>>

\* run_benchmark: QueueType queue(QUEUE_SIZE), total_consumed{0}, the threads
BqInit ==
    /\ MpmcIdle
    /\ LogIdle
    /\ CfgIdle
    /\ SchIdle /\ LastIdle
    /\ \E cap \in 1..MaxBqCapacity, np \in 1..MaxThreads, nc \in 1..MaxThreads, n \in 1..MaxWork :
          /\ np + nc <= MaxThreads
          /\ np * n * nc <= MaxWork
          /\ cap <= np * n
          /\ capacity_ = cap
          /\ bitems = n
          /\ benq = [p \in 0..(np - 1) |-> "call"]
          /\ bi = [p \in 0..(np - 1) |-> 0]
          /\ bdeq = [c \in 0..(nc - 1) |-> "test"]
          /\ bval = [c \in 0..(nc - 1) |-> 0]
    /\ bqueue_ = << >> /\ bmutex_ = << >> /\ not_empty_ = {} /\ not_full_ = {}
    /\ btotal = 0
    /\ bpushed = << >> /\ bpopped = << >>

bqRest == <<mpmcVars, logVars, cfgVars, schVars, lastVars>>
bqFixed == <<capacity_, bitems>>
bqHist == <<bpushed, bpopped>>

(* ---- BlockingQueue::enqueue as called from producer() ---- *)
\* std::unique_lock<std::mutex> lock(mutex_)
BqEnqLock(p) ==
    /\ benq[p] = "call"
    /\ bmutex_ = << >>
    /\ bmutex_' = BqP(p)
    /\ benq' = [benq EXCEPT ![p] = "wait"]
    /\ UNCHANGED <<bqueue_, not_empty_, not_full_, bqFixed, btotal, bi, bdeq, bval, bqHist, bqRest>>

\* mutant: the predicate lets a producer through when the queue is full
BqEnqWait_OffByOne(p) ==
    /\ benq[p] = "wait"
    /\ benq' = [benq EXCEPT ![p] = IF Len(bqueue_) <= capacity_ THEN "push" ELSE "block"]
    /\ UNCHANGED <<bqueue_, bmutex_, not_empty_, not_full_, bqFixed, btotal, bi, bdeq, bval,
                   bqHist, bqRest>>

\* not_full_.wait(lock, pred): the predicate queue_.size() < capacity_
BqEnqWait(p) ==
    /\ benq[p] = "wait"
    /\ benq' = [benq EXCEPT ![p] = IF Len(bqueue_) < capacity_ THEN "push" ELSE "block"]
    /\ UNCHANGED <<bqueue_, bmutex_, not_empty_, not_full_, bqFixed, btotal, bi, bdeq, bval,
                   bqHist, bqRest>>

\* the predicate was false: wait releases the mutex and blocks, atomically
BqEnqBlock(p) ==
    /\ benq[p] = "block"
    /\ bmutex_' = << >>
    /\ not_full_' = not_full_ \cup {p}
    /\ benq' = [benq EXCEPT ![p] = "blocked"]
    /\ UNCHANGED <<bqueue_, not_empty_, bqFixed, btotal, bi, bdeq, bval, bqHist, bqRest>>

\* a spurious wake-up
BqEnqWake(p) ==
    /\ benq[p] = "blocked"
    /\ p \in not_full_
    /\ not_full_' = not_full_ \ {p}
    /\ benq' = [benq EXCEPT ![p] = "relock"]
    /\ UNCHANGED <<bqueue_, bmutex_, not_empty_, bqFixed, btotal, bi, bdeq, bval, bqHist, bqRest>>

\* woken: wait takes the mutex again, then evaluates the predicate again
BqEnqRelock(p) ==
    /\ benq[p] = "relock"
    /\ bmutex_ = << >>
    /\ bmutex_' = BqP(p)
    /\ benq' = [benq EXCEPT ![p] = "wait"]
    /\ UNCHANGED <<bqueue_, not_empty_, not_full_, bqFixed, btotal, bi, bdeq, bval, bqHist, bqRest>>

\* queue_.push(data)
BqEnqPush(p) ==
    /\ benq[p] = "push"
    /\ bqueue_' = Append(bqueue_, BqVal(p, bi[p]))
    /\ bpushed' = Append(bpushed, BqVal(p, bi[p]))
    /\ benq' = [benq EXCEPT ![p] = "notify"]
    /\ UNCHANGED <<bmutex_, not_empty_, not_full_, bqFixed, btotal, bi, bdeq, bval, bpopped, bqRest>>

\* not_empty_.notify_one(): one of the blocked consumers, if there is one, is woken
BqEnqNotify(p) ==
    /\ benq[p] = "notify"
    /\ IF not_empty_ = {}
       THEN UNCHANGED <<not_empty_, bdeq>>
       ELSE \E c \in not_empty_ :
               /\ not_empty_' = not_empty_ \ {c}
               /\ bdeq' = [bdeq EXCEPT ![c] = "relock"]
    /\ benq' = [benq EXCEPT ![p] = "unlock"]
    /\ UNCHANGED <<bqueue_, bmutex_, not_full_, bqFixed, btotal, bi, bval, bqHist, bqRest>>

\* return true (the lock is released); producer(): the while loop ends, ++i
BqEnqReturn(p) ==
    /\ benq[p] = "unlock"
    /\ bmutex_' = << >>
    /\ bi' = [bi EXCEPT ![p] = bi[p] + 1]
    /\ benq' = [benq EXCEPT ![p] = IF bi[p] + 1 < bitems THEN "call" ELSE "done"]
    /\ UNCHANGED <<bqueue_, not_empty_, not_full_, bqFixed, btotal, bdeq, bval, bqHist, bqRest>>

(* ---- BlockingQueue::dequeue as called from consumer() ---- *)
\* while (total_consumed.load() < NUM_PRODUCERS * ITEMS_PER_PRODUCER)
BqConsumerTest(c) ==
    /\ bdeq[c] = "test"
    /\ bdeq' = [bdeq EXCEPT ![c] = IF btotal < BqTotalItems THEN "call" ELSE "done"]
    /\ UNCHANGED <<bqueue_, bmutex_, not_empty_, not_full_, bqFixed, btotal, benq, bi, bval,
                   bqHist, bqRest>>

\* std::unique_lock<std::mutex> lock(mutex_)
BqDeqLock(c) ==
    /\ bdeq[c] = "call"
    /\ bmutex_ = << >>
    /\ bmutex_' = BqC(c)
    /\ bdeq' = [bdeq EXCEPT ![c] = "wait"]
    /\ UNCHANGED <<bqueue_, not_empty_, not_full_, bqFixed, btotal, benq, bi, bval, bqHist, bqRest>>

\* not_empty_.wait_for(lock, 10 ms, pred): the predicate !queue_.empty()
BqDeqWait(c) ==
    /\ bdeq[c] = "wait"
    /\ bdeq' = [bdeq EXCEPT ![c] = IF bqueue_ # << >> THEN "pop" ELSE "block"]
    /\ UNCHANGED <<bqueue_, bmutex_, not_empty_, not_full_, bqFixed, btotal, benq, bi, bval,
                   bqHist, bqRest>>

\* the predicate was false: wait_for releases the mutex and blocks, atomically
BqDeqBlock(c) ==
    /\ bdeq[c] = "block"
    /\ bmutex_' = << >>
    /\ not_empty_' = not_empty_ \cup {c}
    /\ bdeq' = [bdeq EXCEPT ![c] = "blocked"]
    /\ UNCHANGED <<bqueue_, not_full_, bqFixed, btotal, benq, bi, bval, bqHist, bqRest>>

\* a spurious wake-up
BqDeqWake(c) ==
    /\ bdeq[c] = "blocked"
    /\ c \in not_empty_
    /\ not_empty_' = not_empty_ \ {c}
    /\ bdeq' = [bdeq EXCEPT ![c] = "relock"]
    /\ UNCHANGED <<bqueue_, bmutex_, not_full_, bqFixed, btotal, benq, bi, bval, bqHist, bqRest>>

\* the 10 ms are over
BqDeqTimeout(c) ==
    /\ bdeq[c] = "blocked"
    /\ c \in not_empty_
    /\ not_empty_' = not_empty_ \ {c}
    /\ bdeq' = [bdeq EXCEPT ![c] = "timedout"]
    /\ UNCHANGED <<bqueue_, bmutex_, not_full_, bqFixed, btotal, benq, bi, bval, bqHist, bqRest>>

\* woken before the 10 ms are over: the mutex is taken again, the predicate
\* evaluated again
BqDeqRelock(c) ==
    /\ bdeq[c] = "relock"
    /\ bmutex_ = << >>
    /\ bmutex_' = BqC(c)
    /\ bdeq' = [bdeq EXCEPT ![c] = "wait"]
    /\ UNCHANGED <<bqueue_, not_empty_, not_full_, bqFixed, btotal, benq, bi, bval, bqHist, bqRest>>

\* timed out: the mutex is taken again and wait_for returns pred()
BqDeqRelockTimedOut(c) ==
    /\ bdeq[c] = "timedout"
    /\ bmutex_ = << >>
    /\ bmutex_' = BqC(c)
    /\ bdeq' = [bdeq EXCEPT ![c] = "last"]
    /\ UNCHANGED <<bqueue_, not_empty_, not_full_, bqFixed, btotal, benq, bi, bval, bqHist, bqRest>>

\* if (!wait_for(...)) return false (the lock is released)
BqDeqLast(c) ==
    /\ bdeq[c] = "last"
    /\ IF bqueue_ # << >>
       THEN /\ bdeq' = [bdeq EXCEPT ![c] = "pop"]
            /\ UNCHANGED bmutex_
       ELSE /\ bdeq' = [bdeq EXCEPT ![c] = "ret_false"]
            /\ bmutex_' = << >>
    /\ UNCHANGED <<bqueue_, not_empty_, not_full_, bqFixed, btotal, benq, bi, bval, bqHist, bqRest>>

\* mutant: the element taken is the last one pushed
BqDeqPop_Back(c) ==
    /\ bdeq[c] = "pop"
    /\ bval' = [bval EXCEPT ![c] = bqueue_[Len(bqueue_)]]
    /\ bqueue_' = SubSeq(bqueue_, 1, Len(bqueue_) - 1)
    /\ bpopped' = Append(bpopped, bqueue_[Len(bqueue_)])
    /\ bdeq' = [bdeq EXCEPT ![c] = "notify"]
    /\ UNCHANGED <<bmutex_, not_empty_, not_full_, bqFixed, btotal, benq, bi, bpushed, bqRest>>

\* data = queue_.front(); queue_.pop()
BqDeqPop(c) ==
    /\ bdeq[c] = "pop"
    /\ bval' = [bval EXCEPT ![c] = Head(bqueue_)]
    /\ bqueue_' = Tail(bqueue_)
    /\ bpopped' = Append(bpopped, Head(bqueue_))
    /\ bdeq' = [bdeq EXCEPT ![c] = "notify"]
    /\ UNCHANGED <<bmutex_, not_empty_, not_full_, bqFixed, btotal, benq, bi, bpushed, bqRest>>

\* mutant: dequeue does not notify
BqDeqNotify_None(c) ==
    /\ bdeq[c] = "notify"
    /\ bdeq' = [bdeq EXCEPT ![c] = "unlock"]
    /\ UNCHANGED <<bqueue_, bmutex_, not_empty_, not_full_, bqFixed, btotal, benq, bi, bval,
                   bqHist, bqRest>>

\* not_full_.notify_one(): one of the blocked producers, if there is one, is woken
BqDeqNotify(c) ==
    /\ bdeq[c] = "notify"
    /\ IF not_full_ = {}
       THEN UNCHANGED <<not_full_, benq>>
       ELSE \E p \in not_full_ :
               /\ not_full_' = not_full_ \ {p}
               /\ benq' = [benq EXCEPT ![p] = "relock"]
    /\ bdeq' = [bdeq EXCEPT ![c] = "unlock"]
    /\ UNCHANGED <<bqueue_, bmutex_, not_empty_, bqFixed, btotal, bi, bval, bqHist, bqRest>>

\* return true (the lock is released)
BqDeqReturn(c) ==
    /\ bdeq[c] = "unlock"
    /\ bmutex_' = << >>
    /\ bdeq' = [bdeq EXCEPT ![c] = "ret_true"]
    /\ UNCHANGED <<bqueue_, not_empty_, not_full_, bqFixed, btotal, benq, bi, bval, bqHist, bqRest>>

\* consumer(): dequeue returned true: total_consumed.fetch_add(1)
BqConsumerCount(c) ==
    /\ bdeq[c] = "ret_true"
    /\ btotal' = btotal + 1
    /\ bval' = [bval EXCEPT ![c] = 0]
    /\ bdeq' = [bdeq EXCEPT ![c] = "test"]
    /\ UNCHANGED <<bqueue_, bmutex_, not_empty_, not_full_, bqFixed, benq, bi, bqHist, bqRest>>

\* consumer(): dequeue returned false: std::this_thread::yield()
BqConsumerRetry(c) ==
    /\ bdeq[c] = "ret_false"
    /\ bdeq' = [bdeq EXCEPT ![c] = "test"]
    /\ UNCHANGED <<bqueue_, bmutex_, not_empty_, not_full_, bqFixed, btotal, benq, bi, bval,
                   bqHist, bqRest>>

BqProducerStep(p) ==
    \/ BqEnqLock(p) \/ BqEnqWait(p) \/ BqEnqBlock(p) \/ BqEnqRelock(p)
    \/ BqEnqPush(p) \/ BqEnqNotify(p) \/ BqEnqReturn(p)

\* the steps of a consumer thread, the end of its 10 ms included
BqConsumerStep(c) ==
    \/ BqConsumerTest(c) \/ BqDeqLock(c) \/ BqDeqWait(c) \/ BqDeqBlock(c) \/ BqDeqTimeout(c)
    \/ BqDeqRelock(c) \/ BqDeqRelockTimedOut(c) \/ BqDeqLast(c) \/ BqDeqPop(c)
    \/ BqDeqNotify(c) \/ BqDeqReturn(c) \/ BqConsumerCount(c) \/ BqConsumerRetry(c)

BqNext ==
    \/ \E p \in BqProducers : BqEnqLock(p)
    \/ \E p \in BqProducers : BqEnqWait(p)
    \/ \E p \in BqProducers : BqEnqBlock(p)
    \/ \E p \in BqProducers : BqEnqWake(p)
    \/ \E p \in BqProducers : BqEnqRelock(p)
    \/ \E p \in BqProducers : BqEnqPush(p)
    \/ \E p \in BqProducers : BqEnqNotify(p)
    \/ \E p \in BqProducers : BqEnqReturn(p)
    \/ \E c \in BqConsumers : BqConsumerTest(c)
    \/ \E c \in BqConsumers : BqDeqLock(c)
    \/ \E c \in BqConsumers : BqDeqWait(c)
    \/ \E c \in BqConsumers : BqDeqBlock(c)
    \/ \E c \in BqConsumers : BqDeqWake(c)
    \/ \E c \in BqConsumers : BqDeqTimeout(c)
    \/ \E c \in BqConsumers : BqDeqRelock(c)
    \/ \E c \in BqConsumers : BqDeqRelockTimedOut(c)
    \/ \E c \in BqConsumers : BqDeqLast(c)
    \/ \E c \in BqConsumers : BqDeqPop(c)
    \/ \E c \in BqConsumers : BqDeqNotify(c)
    \/ \E c \in BqConsumers : BqDeqReturn(c)
    \/ \E c \in BqConsumers : BqConsumerCount(c)
    \/ \E c \in BqConsumers : BqConsumerRetry(c)

BqSpec == BqInit /\ [][BqNext]_vars

\* Fair scheduling: a thread that can take a step again and again takes one
\* (for a thread that wants the mutex: it gets it in the end); time passes, so
\* the 10 ms of a wait_for that blocks again and again come to an end, however
\* often it is woken before.  Spurious wake-ups are never required.
BqFairness ==
    /\ \A t \in ThreadIds : SF_vars(t \in BqProducers /\ BqProducerStep(t))
    /\ \A t \in ThreadIds : SF_vars(t \in BqConsumers /\ BqConsumerStep(t))
    /\ \A t \in ThreadIds : SF_vars(t \in BqConsumers /\ BqDeqTimeout(t))

BqLiveSpec == BqSpec /\ BqFairness

TypeOK ==
    /\ enqueue_pos_ \in Nat /\ dequeue_pos_ \in Nat
    /\ total_consumed \in Nat


(***************************************************************************)
(* Properties                                                              *)
(***************************************************************************)
AllValues == {Val(p, i) : p \in Producers, i \in 0..(ITEMS_PER_PRODUCER - 1)}
InsertedVals == {e[2] : e \in eclaims}
Drained == total_consumed = TotalItems

\* C1: no loss, no duplication: every value a successful dequeue returned was
\* inserted by some enqueue and was returned once; once all items are drained
\* every value whose enqueue returned true has been returned by exactly one
\* dequeue, and the bag of dequeued values equals the bag of enqueued values.
NoLossNoDuplication ==
    /\ \A v \in BagToSet(got) : CopiesIn(v, got) = 1 /\ v \in InsertedVals
    /\ Drained => /\ Returned = AllValues
                  /\ got = SetToBag(Returned)

NoLossNoDuplication_witness ==
    /\ Drained
    /\ Cardinality(Producers) = 2
    /\ Capacity < TotalItems

\* C2: per-position value integrity: the value a consumer reads at position k
\* is the value the producer that claimed k wrote; when the consumer is about
\* to read, that producer's write of cell->data has completed; a value of
\* another lap of the slot is never read.
ValueIntegrity ==
    /\ reads \subseteq eclaims
    /\ \A c \in Consumers : cpc[c] = "read" =>
          /\ \E e \in eclaims : e[1] = cpos[c] /\ buffer_[CellIndex(cpos[c])].data = e[2]
          /\ \A p \in Producers : ppc[p] \in {"write", "publish"} => ppos[p] # cpos[c]

ValueIntegrity_witness ==
    \E r \in reads : r[1] >= Capacity /\ r[2] # 0

\* C3: capacity bound: the positions claimed by a producer CAS and not yet
\* claimed by a consumer CAS are never more than capacity.
CapacityBound == Cardinality(Resident) <= Capacity

CapacityBound_witness ==
    /\ Cardinality(Resident) = Capacity
    /\ \E p \in Producers : ppc[p] = "ret_false"

\* C4: full after capacity enqueues: while capacity enqueues have returned
\* true and no dequeue has claimed anything, no enqueue call can succeed: at
\* the current position it takes the dif < 0 exit, at a stale position it
\* reloads, and a pending CAS fails.  With one producer thread (calls do not
\* overlap) no call returns false while fewer than capacity positions have
\* been claimed, and every evaluation of the slot finds it write-ready.
FullAfterCapacity ==
    /\ (Cardinality(Returned) = Capacity /\ dclaims = EmptyBag) =>
          \A p \in Producers :
             /\ ppc[p] \notin {"write", "publish"}
             /\ ppc[p] = "cas" => ppos[p] # enqueue_pos_
             /\ ppc[p] = "loop" =>
                   EnqBranch(EnqDif(buffer_[CellIndex(ppos[p])].sequence, ppos[p]))
                      = (IF ppos[p] = enqueue_pos_ THEN "ret_false" ELSE "reload")
    /\ (Cardinality(Producers) = 1 /\ enqueue_pos_ < Capacity) =>
          \A p \in Producers :
             /\ ppc[p] # "ret_false"
             /\ ppc[p] = "loop" =>
                   EnqBranch(EnqDif(buffer_[CellIndex(ppos[p])].sequence, ppos[p])) = "cas"

FullAfterCapacity_witness ==
    /\ Cardinality(Returned) = Capacity
    /\ dclaims = EmptyBag
    /\ \E p \in Producers : ppc[p] = "ret_false"


(* ---- what a failed call has observed ---- *)
ClaimedByProducer(k) == \E e \in eclaims : e[1] = k

\* the producer of position k has executed its release store
Published(k) ==
    /\ ClaimedByProducer(k)
    /\ \A p \in Producers : ppc[p] \in {"write", "publish"} => ppos[p] # k

\* the consumer of position k has executed its release store
Released(k) ==
    /\ BagIn(k, dclaims)
    /\ \A c \in Consumers : cpc[c] \in {"read", "release"} => cpos[c] # k

OldestFirst ==
    /\ \A p \in Producers : ppc[p] \in {"write", "publish"} => psnap[p] < ppos[p]
    /\ \A r1 \in reads, r2 \in reads, e1 \in eclaims, e2 \in eclaims :
          (e1[2] = r1[2] /\ e2[2] = r2[2] /\ e1[1] < e2[1]) => r1[1] < r2[1]
    /\ Cardinality(Consumers) = 1 =>
          \A c \in Consumers : cpc[c] = "read" => \A r \in reads : r[1] < cpos[c]

\* a second-lap value is being read by the single consumer while a producer
\* writes a value whose call began after another enqueue had returned true
OldestFirst_witness ==
    /\ Cardinality(Producers) = 2
    /\ \E p \in Producers : ppc[p] = "write" /\ psnap[p] >= 0
    /\ \E c \in Consumers : cpc[c] = "read" /\ reads # {}


\* C8: exclusive claim of positions: each position is claimed on
\* enqueue_pos_ by at most one enqueue call and on dequeue_pos_ by at most one
\* dequeue call; of the calls that race on one cached pos at most one is past
\* its CAS, and a call whose CAS meets a counter that has moved on fails and
\* continues at a strictly higher position.
ExclusiveClaimState ==
    /\ \A e1 \in eclaims, e2 \in eclaims : e1[1] = e2[1] => e1 = e2
    /\ \A k \in BagToSet(dclaims) : CopiesIn(k, dclaims) = 1
    /\ \A p \in Producers, q \in Producers :
          (p # q /\ ppc[p] \in {"write", "publish"} /\ ppc[q] \in {"write", "publish"})
             => ppos[p] # ppos[q]
    /\ \A c \in Consumers, d \in Consumers :
          (c # d /\ cpc[c] \in {"read", "release"} /\ cpc[d] \in {"read", "release"})
             => cpos[c] # cpos[d]

ExclusiveClaimStep ==
    /\ \A p \in Producers :
          (ppc[p] = "cas" /\ ppos[p] # enqueue_pos_ /\ ppc'[p] # "cas")
             => (ppc'[p] = "loop" /\ ppos'[p] > ppos[p])
    /\ \A c \in Consumers :
          (cpc[c] = "cas" /\ cpos[c] # dequeue_pos_ /\ cpc'[c] # "cas")
             => (cpc'[c] = "loop" /\ cpos'[c] > cpos[c])

SlotHolders(i) ==
    {<<"producer", p>> : p \in {q \in Producers :
        ppc[q] \in {"write", "publish"} /\ CellIndex(ppos[q]) = i}}
    \cup
    {<<"consumer", c>> : c \in {d \in Consumers :
        cpc[d] \in {"read", "release"} /\ CellIndex(cpos[d]) = i}}

ExclusiveSlotAccess ==
    \A i \in DOMAIN buffer_ : Cardinality(SlotHolders(i)) <= 1

\* a producer of a later lap holds a slot while a consumer holds another one
ExclusiveSlotAccess_witness ==
    /\ \E p \in Producers : ppc[p] = "write" /\ ppos[p] >= Capacity
    /\ \E c \in Consumers : cpc[c] = "read"


\* C10: stress-run termination: under fair scheduling every producer and
\* consumer thread terminates; total_consumed never exceeds the number of
\* items and equals it when all threads have terminated.
AllDone ==
    /\ \A p \in Producers : ppc[p] = "done"
    /\ \A c \in Consumers : cpc[c] = "done"

StressRunTerminates ==
    /\ [](total_consumed <= TotalItems)
    /\ [](AllDone => total_consumed = TotalItems)
    /\ <>[]AllDone

\* all threads have terminated in a run whose queue is smaller than the
\* number of items
StressRunTerminates_witness ==
    /\ AllDone
    /\ Capacity < TotalItems
    /\ Cardinality(Producers) = 2


\* C11: non-blocking progress.  A thread inside a call always has a step of
\* its own to take (it never waits for another thread).  A call that observes
\* dif < 0 returns false in that loop iteration; the loop is re-entered only
\* after a failed CAS or a dif > 0 observation, and unless the CAS failed
\* spuriously the position counter is then strictly ahead of the pos the call
\* last loaded.  A call whose pos is current never observes dif > 0, so a call
\* running alone goes round the loop at most once more after its pos has been
\* brought up to date.  Under fair scheduling every call returns.
NonBlockingState ==
    /\ \A p \in Producers :
          /\ InEnqueue(p) => ENABLED ProducerStep(p)
          /\ ppc[p] = "reload" => enqueue_pos_ > ppos[p]
          /\ (ppc[p] = "loop" /\ ppos[p] = enqueue_pos_) =>
                 EnqDif(buffer_[CellIndex(ppos[p])].sequence, ppos[p]) <= 0
    /\ \A c \in Consumers :
          /\ InDequeue(c) => ENABLED ConsumerStep(c)
          /\ cpc[c] = "reload" => dequeue_pos_ > cpos[c]
          /\ (cpc[c] = "loop" /\ cpos[c] = dequeue_pos_) =>
                 DeqDif(buffer_[CellIndex(cpos[c])].sequence, cpos[c]) <= 0

NonBlockingStep ==
    /\ \A p \in Producers :
          /\ (ppc[p] = "loop" /\ ppc'[p] # "loop"
                /\ EnqDif(buffer_[CellIndex(ppos[p])].sequence, ppos[p]) < 0)
                => ppc'[p] = "ret_false"
          /\ (ppc[p] # "loop" /\ ppc'[p] = "loop") => ppc[p] \in {"call", "cas", "reload"}
          /\ (ppc[p] \in {"cas", "reload"} /\ ppc'[p] = "loop" /\ enqueue_pos_ # ppos[p])
                => (enqueue_pos_ > ppos[p] /\ ppos'[p] = enqueue_pos_)
    /\ \A c \in Consumers :
          /\ (cpc[c] = "loop" /\ cpc'[c] # "loop"
                /\ DeqDif(buffer_[CellIndex(cpos[c])].sequence, cpos[c]) < 0)
                => cpc'[c] = "ret_false"
          /\ (cpc[c] # "loop" /\ cpc'[c] = "loop") => cpc[c] \in {"call", "cas", "reload"}
          /\ (cpc[c] \in {"cas", "reload"} /\ cpc'[c] = "loop" /\ dequeue_pos_ # cpos[c])
                => (dequeue_pos_ > cpos[c] /\ cpos'[c] = dequeue_pos_)

EveryCallReturns ==
    \A t \in ThreadIds :
        /\ []<>(t \notin Producers \/ ~InEnqueue(t))
        /\ []<>(t \notin Consumers \/ ~InDequeue(t))

NonBlockingProgress ==
    /\ []NonBlockingState
    /\ [][NonBlockingStep]_vars
    /\ EveryCallReturns

\* an enqueue call has observed dif > 0 on a pos another producer has claimed
\* meanwhile, and a dequeue call has just returned false
NonBlockingProgress_witness ==
    /\ \E p \in Producers : ppc[p] = "reload" /\ enqueue_pos_ > ppos[p]
    /\ \E c \in Consumers : cpc[c] = "ret_false"


\* C12: empty-on-start: on a freshly constructed queue of any capacity, while
\* no enqueue has been invoked, no dequeue call gets past its first look at
\* the slot: it returns false in that iteration, claims no position and reads
\* no slot value into the output argument.
NoEnqueueYet ==
    /\ enqueue_pos_ = 0
    /\ \A p \in Producers : ppc[p] = "call" /\ pi[p] = 0

EmptyOnStartState ==
    NoEnqueueYet =>
        /\ dequeue_pos_ = 0
        /\ total_consumed = 0
        /\ \A c \in Consumers :
              /\ cpc[c] \in {"test", "call", "loop", "ret_false"}
              /\ cval[c] = 0

EmptyOnStartStep ==
    NoEnqueueYet =>
        \A c \in Consumers :
            (cpc[c] = "loop" /\ cpc'[c] # "loop") =>
                (cpc'[c] = "ret_false" /\ cval'[c] = cval[c] /\ buffer_' = buffer_)

EmptyOnStart == []EmptyOnStartState /\ [][EmptyOnStartStep]_vars

\* a dequeue call has returned false on the fresh queue of the largest
\* capacity, before any enqueue was invoked
EmptyOnStart_witness ==
    /\ NoEnqueueYet
    /\ Capacity = Pow2(MaxQueueLog)
    /\ \E c \in Consumers : cpc[c] = "ret_false"


\* C13: idempotence of failed dequeue.  Every step of a dequeue call other
\* than its successful CAS and what follows it leaves enqueue_pos_,
\* dequeue_pos_ and every slot unchanged, and a call returns false only from
\* such steps.  While the queue is empty (every position claimed by a producer
\* is claimed by a consumer) no dequeue can claim a position, and a call whose
\* pos is current returns false, however many calls came before.  When the
\* queue is empty and nobody holds a slot, the next position is write-ready,
\* and a value read at a position is the value enqueued at that position.
QueueIsEmpty == enqueue_pos_ = dequeue_pos_

NobodyHoldsSlot ==
    /\ \A p \in Producers : ppc[p] \notin {"write", "publish"}
    /\ \A c \in Consumers : cpc[c] \notin {"read", "release"}

FailedDequeueState ==
    /\ QueueIsEmpty =>
          \A c \in Consumers :
              /\ cpc[c] = "cas" => cpos[c] # dequeue_pos_
              /\ (cpc[c] = "loop" /\ cpos[c] = dequeue_pos_) =>
                     DeqDif(buffer_[CellIndex(cpos[c])].sequence, cpos[c]) < 0
    /\ (QueueIsEmpty /\ NobodyHoldsSlot) =>
          buffer_[CellIndex(enqueue_pos_)].sequence = enqueue_pos_
    /\ \A r \in reads : r \in eclaims

FailedDequeueStep ==
    \A c \in Consumers :
        /\ (cpc[c] # "ret_false" /\ cpc'[c] = "ret_false") => cpc[c] = "loop"
        /\ (cpc[c] \in {"call", "loop", "reload"} /\ cpc'[c] # cpc[c]) =>
               (cpc'[c] \notin {"read", "release", "ret_true"}
                /\ UNCHANGED <<buffer_, enqueue_pos_, dequeue_pos_>>)
        /\ (cpc[c] = "cas" /\ cpc'[c] = "loop") =>
               UNCHANGED <<buffer_, enqueue_pos_, dequeue_pos_>>

FailedDequeueIdempotent == []FailedDequeueState /\ [][FailedDequeueStep]_vars

\* a dequeue call has returned false on a queue that is empty again after
\* values have passed through it, and a value has been returned before
FailedDequeueIdempotent_witness ==
    /\ QueueIsEmpty /\ NobodyHoldsSlot
    /\ dequeue_pos_ > 0
    /\ reads # {}
    /\ \E c \in Consumers : cpc[c] = "ret_false"


\* C14: no partial effect of a full enqueue.  An enqueue call returns false
\* only from its sequence load, and every step of a call other than its
\* successful CAS and what follows it leaves enqueue_pos_, dequeue_pos_ and
\* every slot unchanged and claims no position.  A value whose enqueue has
\* not succeeded - rejected any number of times - has been put at no
\* position, read by no dequeue and returned by none.
NotYetAccepted(p) ==
    ppc[p] \in {"call", "loop", "cas", "reload", "ret_false"}

RejectedLeavesNoTraceState ==
    \A p \in Producers :
        NotYetAccepted(p) =>
            /\ \A e \in eclaims : e[2] # Val(p, pi[p])
            /\ \A r \in reads : r[2] # Val(p, pi[p])
            /\ ~BagIn(Val(p, pi[p]), got)

RejectedLeavesNoTraceStep ==
    \A p \in Producers :
        /\ (ppc[p] # "ret_false" /\ ppc'[p] = "ret_false") => ppc[p] = "loop"
        /\ (ppc[p] \in {"call", "loop", "reload", "ret_false"} /\ ppc'[p] # ppc[p]) =>
               (ppc'[p] \notin {"write", "publish", "ret_true"}
                /\ UNCHANGED <<buffer_, enqueue_pos_, dequeue_pos_, eclaims>>)
        /\ (ppc[p] = "cas" /\ ppc'[p] = "loop") =>
               UNCHANGED <<buffer_, enqueue_pos_, dequeue_pos_, eclaims>>

NoPartialEnqueue == []RejectedLeavesNoTraceState /\ [][RejectedLeavesNoTraceStep]_vars

\* an enqueue call has returned false on a full queue after earlier values
\* were dequeued
NoPartialEnqueue_witness ==
    /\ \E p \in Producers : ppc[p] = "ret_false" /\ psaw[p]
    /\ got # EmptyBag


\* C16: role-disjoint counters.  Every step of a producer leaves dequeue_pos_
\* unchanged and every step of a consumer leaves enqueue_pos_ unchanged; the
\* pos a producer loads (at the call, at a failed CAS, at a reload) is the
\* value of enqueue_pos_, the pos a consumer loads is the value of
\* dequeue_pos_; producers change only enqueue_pos_ and slots, consumers only
\* dequeue_pos_, slots and the harness' counter.
RoleDisjointStep ==
    /\ \A p \in Producers :
          ppc'[p] # ppc[p] =>
              /\ dequeue_pos_' = dequeue_pos_
              /\ total_consumed' = total_consumed
              /\ (ppc'[p] = "loop" => ppos'[p] = enqueue_pos_)
              /\ (ppc[p] = "cas" /\ ppc'[p] = "write") => enqueue_pos_' = enqueue_pos_ + 1
    /\ \A c \in Consumers :
          cpc'[c] # cpc[c] =>
              /\ enqueue_pos_' = enqueue_pos_
              /\ (cpc'[c] = "loop" => cpos'[c] = dequeue_pos_)
              /\ (cpc[c] = "cas" /\ cpc'[c] = "read") => dequeue_pos_' = dequeue_pos_ + 1

RoleDisjointCounters == [][RoleDisjointStep]_vars

\* both roles hold a slot while the two counters differ and an enqueue call
\* is about to reload its pos
RoleDisjointCounters_witness ==
    /\ enqueue_pos_ > dequeue_pos_ /\ dequeue_pos_ > 0
    /\ \E p \in Producers : ppc[p] = "reload"
    /\ \E c \in Consumers : cpc[c] \in {"read", "release"}


\* C15: power-of-two validation.  A queue object results from construction
\* only when the argument is a power of two that is at least 2, and its
\* capacity is then exactly the argument (never another, valid, size); an
\* argument of 0, 1, 3 or any other invalid size ends in the failed assertion
\* with no slot, no counter movement and no thread in any call.  The test of
\* the assertion accepts 2 and 65536 and refuses 0, 1 and 3.
IsPowerOfTwo(n) == \E k \in 0..16 : n = Pow2(k)

PowerOfTwoValidation ==
    /\ constructed = "yes" =>
          /\ requested >= 2 /\ IsPowerOfTwo(requested)
          /\ Capacity = requested
          /\ DOMAIN buffer_ = 0..(requested - 1)
    /\ constructed = "aborted" =>
          /\ requested < 2 \/ ~IsPowerOfTwo(requested)
          /\ buffer_ = << >> /\ enqueue_pos_ = 0 /\ dequeue_pos_ = 0
          /\ Producers = {} /\ Consumers = {}
    /\ constructed = "no" => (Producers = {} /\ Consumers = {})
    /\ ValidSize(2) /\ ValidSize(65536)
    /\ ~ValidSize(0) /\ ~ValidSize(1) /\ ~ValidSize(3)

\* construction with capacity 3 has been refused
PowerOfTwoValidation_witness ==
    constructed = "aborted" /\ requested = 3


\* C17: flush on destruction.  When the destructor has returned the queue is
\* empty, the worker has left process(), and every message enqueued (each of
\* them by a call that returned before the destructor began) has been handed
\* to every strategy of the vector that is not a null pointer; the worker
\* leaves process() only with stop_ set and the queue empty; once begun, the
\* destructor returns (its join is never left waiting by a lost wake-up).
Flushed ==
    \A s \in DOMAIN strategies_ :
        logged[s] = IF strategies_[s] THEN pushed ELSE << >>

FlushOnDestruction ==
    /\ [](dpc = "returned" => (queue_ = << >> /\ wpc = "done" /\ Flushed))
    /\ [](dpc # "nd" => \A t \in LogThreads : Len(SelectSeq(pushed, LAMBDA m : m[1] = t)) = lsent[t])
    /\ [][(wpc # "done" /\ wpc' = "done") => (stop_ /\ queue_ = << >>)]_vars
    /\ (dpc # "nd") ~> (dpc = "returned")

\* the destructor has returned after two threads logged; the vector holds a
\* strategy and a null pointer
FlushOnDestruction_witness ==
    /\ dpc = "returned"
    /\ Cardinality(LogThreads) = 2
    /\ Len(pushed) >= 2
    /\ \E s1 \in DOMAIN strategies_, s2 \in DOMAIN strategies_ :
          strategies_[s1] /\ ~strategies_[s2]


\* C18: no log loss and no duplication under concurrent logging.  Every
\* message pushed is, for each strategy of the vector, either already handed
\* to it, or the message the worker is dispatching and has not yet handed to
\* it, or still in the queue - once each and in the order of the pushes (the
\* order in which the enqueue calls held the mutex); a thread's messages are
\* pushed in its program order; a null pointer is handed nothing.  When the
\* queue is empty and the worker is not dispatching, the number handed to each
\* strategy equals the number enqueued.
PendingFor(s) ==
    IF wpc = "dispatch" /\ wit <= s THEN <<wmsg>> ELSE << >>

ExactlyOnceInOrderState ==
    /\ \A s \in DOMAIN strategies_ :
          IF strategies_[s]
          THEN logged[s] \o PendingFor(s) \o queue_ = pushed
          ELSE logged[s] = << >>
    /\ \A i \in 1..Len(pushed), j \in 1..Len(pushed) : pushed[i] = pushed[j] => i = j
    /\ \A t \in LogThreads :
          LET mine == SelectSeq(pushed, LAMBDA m : m[1] = t)
          IN  /\ \A i \in 1..Len(mine) : mine[i] = Msg(t, i - 1)
              /\ Len(mine) = lsent[t] + (IF lpc[t] = "notify" THEN 1 ELSE 0)
    /\ (queue_ = << >> /\ wpc # "dispatch") =>
          \A s \in DOMAIN strategies_ : strategies_[s] => Len(logged[s]) = Len(pushed)

NoLogLoss == ExactlyOnceInOrderState

\* every message of two threads whose pushes alternated has been handed to
\* two strategies, and the worker has left
NoLogLoss_witness ==
    /\ wpc = "done"
    /\ Len(pushed) = 4
    /\ pushed[1][1] # pushed[2][1]
    /\ \A s \in DOMAIN strategies_ : strategies_[s]
    /\ Len(strategies_) = 2


(***************************************************************************)
(* ConfigurationManager: properties                                        *)
(***************************************************************************)
\* what getValue<type>(key, defaultValue) returns on one whole store
ValueIn(store, key, type) ==
    IF key \in DOMAIN store /\ store[key][1] = type THEN store[key] ELSE DefaultValue

\* the reader threads between the shared_lock and its release
Reading == {r \in Readers : gpc[r] \in {"find", "holds", "get"}}

\* a getValue call reads one store from its lock to its return: the store does
\* not change under it, no read fails, and the value returned is the one that
\* store gives
OneStorePerCall ==
    /\ \A r \in Reading : r \in cfgReaders /\ configStore = gsnap[r]
    /\ \A r \in Readers : gpc[r] # "threw"
    /\ \A r \in Readers : gpc[r] = "ret" => gres[r] = ValueIn(gsnap[r], gkey[r], gtype[r])
    /\ cfgWriter # << >> => cfgReaders = {}

\* configStore changes in one step, to the whole merged store, by the thread
\* that holds the exclusive lock, with no getValue call between its lock and
\* its release
SwapUnderExclusiveLock ==
    configStore' # configStore =>
        /\ upc = "swap" /\ cfgWriter = <<"updater">> /\ cfgReaders = {} /\ Reading = {}
        /\ configStore' = newStore
        /\ newStore = MergeUpTo(Len(sources))

\* C19: a getValue call that runs concurrently with reload() sees the whole
\* store from before the reload or the whole store after it, never a mixture:
\* configStore is replaced in a single step under the exclusive lock, and every
\* read of a call is made on the store the call locked.
AtomicReload == [][SwapUnderExclusiveLock]_vars /\ []OneStorePerCall

\* a getValue call is reading a key while reload(), called meanwhile, waits
\* for the lock to replace the value of that key
AtomicReload_witness ==
    \E r \in Readers :
        /\ gpc[r] = "get"
        /\ upc = "rlock"
        /\ ~ValidationFails(MergeUpTo(Len(sources)))
        /\ MergeUpTo(Len(sources))[gkey[r]] # configStore[gkey[r]]
        /\ MergeUpTo(Len(sources))[gkey[r]][1] # gtype[r]


\* the step of reload() that finds a key of the merged store refused by its
\* validator: it returns, releasing the lock, with configStore and the
\* observers as they were when the call began
AbortStep ==
    (upc = "validate" /\ upc' # upc /\ ValidationFails(newStore)) =>
        /\ upc' = "idle" /\ cfgWriter' = << >>
        /\ configStore' = configStore /\ configStore' = storeAtCall
        /\ notified' = notifiedAtCall /\ observers' = observers

\* reload() has returned and the store it merged fails validation: every key
\* of configStore has the value it had before the call, whatever the sources
\* say, no observer was notified, and a getValue call that reads now gets the
\* old value
AbortedState ==
    (upc = "idle" /\ ValidationFails(MergeUpTo(Len(sources)))) =>
        /\ configStore = storeAtCall
        /\ notified = notifiedAtCall
        /\ ~ValidationFails(configStore)
        /\ \A r \in Reading : ValueIn(configStore, gkey[r], gtype[r]) =
                                   ValueIn(storeAtCall, gkey[r], gtype[r])

\* C20: if a key of the merged new store fails its validator, reload() leaves
\* configStore exactly as it was before the call, every key included, and
\* notifies no observer.
ReloadAbortsOnInvalid == [][AbortStep]_vars /\ []AbortedState

\* the run of main: max_connections was set to a value in range (500, here
\* RangeMax), the observer was notified, then a source update to a value above
\* the range (2000, here RangeMax + 1) was refused: the store keeps the old
\* value and the observer, alive, was not notified again
ReloadAbortsOnInvalid_witness ==
    /\ upc = "idle" /\ updates = 0
    /\ MergeUpTo(Len(sources))["max_connections"] = IntValue(RangeMax + 1)
    /\ configStore["max_connections"] = IntValue(RangeMax)
    /\ ValueIn(configStore, "max_connections", "int") = IntValue(RangeMax)
    /\ \E i \in DOMAIN observers : observers[i]
    /\ notified = notifiedAtCall /\ notified > 0


(***************************************************************************)
(* MPMCQueue: the sequence numbers                                         *)
(***************************************************************************)
\* the positions a run can reach, and those of them that fall on ring index i
Positions == 0..(TotalItems + Capacity)
PositionsOf(i) == {q \in Positions : CellIndex(q) = i}

\* the slot of position q is write-ready for q: it is in its first lap or the
\* consumer of the lap before has released it, and the producer of q, if
\* there is one yet, has not published
WriteReady(q) == (q < Capacity \/ Released(q - Capacity)) /\ ~Published(q)

\* the slot of position q holds the published, not yet released value of q
ReadReady(q) == Published(q) /\ ~Released(q)

SlotReadinessState ==
    \A i \in DOMAIN buffer_ :
        LET seq == buffer_[i].sequence
        IN  /\ seq % Capacity \in {i, (i + 1) % Capacity}
            /\ \A q \in PositionsOf(i) :
                  /\ seq = q <=> WriteReady(q)
                  /\ seq = q + 1 <=> ReadReady(q)
            /\ \E q \in PositionsOf(i) : seq \in {q, q + 1}

SlotReadinessStep ==
    \A i \in DOMAIN buffer_ :
        LET old == buffer_[i].sequence
            new == buffer_'[i].sequence
        IN  new # old =>
               /\ new > old
               /\ IF old % Capacity = i
                  THEN new = old + 1 /\ \E p \in Producers : ppc[p] = "publish" /\ ppc'[p] # "publish"
                  ELSE new = old + Capacity - 1
                       /\ \E c \in Consumers : cpc[c] = "release" /\ cpc'[c] # "release"

\* C21: slot readiness.  The sequence of the slot at ring index i is congruent
\* to i or to i + 1 modulo capacity; it is k*capacity + i exactly while the
\* slot is write-ready for lap k and k*capacity + i + 1 exactly while the slot
\* holds the published, not yet released value of lap k; every store to a
\* sequence increases it, by 1 on publish and by capacity - 1 on release.
SlotReadiness == []SlotReadinessState /\ [][SlotReadinessStep]_vars

\* a slot holds the published value of its second lap while a consumer holds
\* another slot and a producer has claimed one
SlotReadiness_witness ==
    /\ \E i \in DOMAIN buffer_ : buffer_[i].sequence = Capacity + i + 1
    /\ \E c \in Consumers : cpc[c] \in {"read", "release"}
    /\ \E p \in Producers : ppc[p] \in {"write", "publish"}


\* the step of consumer c that stores the release value
ReleaseStore(c) == cpc[c] = "release" /\ cpc'[c] = "ret_true"

\* the sequence of the slot of position pos after the step
SeqAfter(pos) == buffer_'[CellIndex(pos)].sequence

\* C22 as stated: the release value pos + mask + 1 equals
\* pos - (pos & mask) + capacity and equals k*capacity + i + capacity, for
\* every claimed position pos = k*capacity + i.
ReleaseValueAsStatedStep ==
    \A c \in Consumers :
        ReleaseStore(c) =>
            LET pos == cpos[c]
                i == pos % Capacity
                k == pos \div Capacity
            IN  /\ SeqAfter(pos) = pos + buffer_mask_ + 1
                /\ SeqAfter(pos) = pos - BitAnd(pos, buffer_mask_) + Capacity
                /\ SeqAfter(pos) = k * Capacity + i + Capacity

ReleaseValueAsStated == [][ReleaseValueAsStatedStep]_vars

ReleaseValueStep ==
    \A c \in Consumers :
        ReleaseStore(c) =>
            LET pos == cpos[c]
                i == pos % Capacity
                k == pos \div Capacity
            IN  /\ BagIn(pos, dclaims)
                /\ i = CellIndex(pos)
                /\ SeqAfter(pos) = pos + buffer_mask_ + 1
                /\ SeqAfter(pos) = pos + Capacity
                /\ SeqAfter(pos) = k * Capacity + i + Capacity
                /\ CellIndex(SeqAfter(pos)) = CellIndex(pos)
                /\ \E q \in Positions : q = pos + Capacity /\ WriteReady(q)'
                /\ (SeqAfter(pos) = pos - BitAnd(pos, buffer_mask_) + Capacity) <=> (i = 0)

\* C22 amended: the release value pos + mask + 1 of a dequeue that claimed
\* pos = k*capacity + i is pos + capacity = k*capacity + i + capacity, the
\* write-ready value of the next lap of that slot; it equals
\* pos - (pos & mask) + capacity only for the positions on ring index 0.
ReleaseValue == [][ReleaseValueStep]_vars

\* a dequeue has just released a slot other than slot 0, in its second lap
ReleaseValue_witness ==
    \E c \in Consumers, i \in DOMAIN buffer_ :
        /\ cpc[c] = "ret_true"
        /\ i # 0
        /\ buffer_[i].sequence = i + 2 * Capacity


\* the shared state of the queue and of the harness
sharedVars == <<buffer_, enqueue_pos_, dequeue_pos_, total_consumed>>

\* no two enqueue calls and no two dequeue calls are in progress together
CallsDoNotOverlap ==
    /\ Cardinality({p \in Producers : InEnqueue(p)}) <= 1
    /\ Cardinality({c \in Consumers : InDequeue(c)}) <= 1

NoStaleBranch ==
    /\ \A p \in Producers : ppc[p] # "reload"
    /\ \A c \in Consumers : cpc[c] # "reload"

StaleBranchState ==
    /\ \A p \in Producers : ppc[p] = "reload" => enqueue_pos_ > ppos[p]
    /\ \A c \in Consumers : cpc[c] = "reload" => dequeue_pos_ > cpos[c]
    /\ Cardinality(Producers) = 1 => \A p \in Producers : ppc[p] # "reload"
    /\ Cardinality(Consumers) = 1 => \A c \in Consumers : cpc[c] # "reload"

StaleBranchStep ==
    /\ \A p \in Producers :
          /\ (ppc[p] = "loop" /\ ppc'[p] = "reload") =>
                /\ EnqDif(buffer_[CellIndex(ppos[p])].sequence, ppos[p]) > 0
                /\ enqueue_pos_ > ppos[p]
                /\ UNCHANGED sharedVars
          /\ (ppc[p] = "reload" /\ ppc'[p] # "reload") =>
                /\ ppc'[p] = "loop"
                /\ ppos'[p] > ppos[p] /\ ppos'[p] = enqueue_pos_
                /\ UNCHANGED sharedVars
    /\ \A c \in Consumers :
          /\ (cpc[c] = "loop" /\ cpc'[c] = "reload") =>
                /\ DeqDif(buffer_[CellIndex(cpos[c])].sequence, cpos[c]) > 0
                /\ dequeue_pos_ > cpos[c]
                /\ UNCHANGED sharedVars
          /\ (cpc[c] = "reload" /\ cpc'[c] # "reload") =>
                /\ cpc'[c] = "loop"
                /\ cpos'[c] > cpos[c] /\ cpos'[c] = dequeue_pos_
                /\ UNCHANGED sharedVars

\* C23: the stale-position branch.  The dif > 0 branch of enqueue (dequeue) is
\* taken only when enqueue_pos_ (dequeue_pos_) is already strictly greater
\* than the caller's cached pos; it writes nothing to shared state and the
\* reload that follows yields a strictly larger pos.  It is never taken with
\* one thread of the role, nor in a run in which calls of the same role do not
\* overlap.
StaleBranch ==
    /\ []StaleBranchState
    /\ [][StaleBranchStep]_vars
    /\ ([]CallsDoNotOverlap => []NoStaleBranch)

\* with two consumers, a dequeue call has taken the dif > 0 branch: the slot of
\* its cached pos has been released by the other consumer
StaleBranch_witness ==
    \E c \in Consumers :
        /\ cpc[c] = "reload"
        /\ Cardinality(Consumers) = 2
        /\ buffer_[CellIndex(cpos[c])].sequence = cpos[c] + Capacity


\* the compare-and-swap of the call of producer p (consumer c) fails in this step
EnqCasLost(p) == ppc[p] = "cas" /\ ppc'[p] \notin {"cas", "write"}
DeqCasLost(c) == cpc[c] = "cas" /\ cpc'[c] \notin {"cas", "read"}

LostCasStep ==
    /\ \A p \in Producers :
          /\ EnqCasLost(p) =>
                /\ UNCHANGED <<sharedVars, eclaims, pi>>
                /\ ppc'[p] = "loop"
                /\ ppos'[p] = enqueue_pos_ /\ ppos'[p] >= ppos[p]
          \* the slot is evaluated for the pos at hand before p goes to its CAS,
          \* and p writes only after a CAS on that pos has succeeded
          /\ (ppc[p] # "cas" /\ ppc'[p] = "cas") =>
                /\ ppc[p] = "loop" /\ ppos'[p] = ppos[p]
                /\ buffer_[CellIndex(ppos[p])].sequence = ppos[p]
          /\ (ppc[p] # "write" /\ ppc'[p] = "write") =>
                /\ ppc[p] = "cas" /\ ppos'[p] = ppos[p]
                /\ enqueue_pos_ = ppos[p] /\ enqueue_pos_' = ppos[p] + 1
          /\ (InEnqueue(p) /\ ~InEnqueue(p)') => ppc'[p] \in {"ret_true", "ret_false"}
    /\ \A c \in Consumers :
          /\ DeqCasLost(c) =>
                /\ UNCHANGED <<sharedVars, dclaims, reads, got, cval>>
                /\ cpc'[c] = "loop"
                /\ cpos'[c] = dequeue_pos_ /\ cpos'[c] >= cpos[c]
          /\ (cpc[c] # "cas" /\ cpc'[c] = "cas") =>
                /\ cpc[c] = "loop" /\ cpos'[c] = cpos[c]
                /\ buffer_[CellIndex(cpos[c])].sequence = cpos[c] + 1
          /\ (cpc[c] # "read" /\ cpc'[c] = "read") =>
                /\ cpc[c] = "cas" /\ cpos'[c] = cpos[c]
                /\ dequeue_pos_ = cpos[c] /\ dequeue_pos_' = cpos[c] + 1
          /\ (InDequeue(c) /\ ~InDequeue(c)') => cpc'[c] \in {"ret_true", "ret_false"}

\* a thread that writes a slot has won the CAS on the position of that slot
LostCasState ==
    /\ \A p \in Producers :
          ppc[p] \in {"write", "publish"} => <<ppos[p], Val(p, pi[p])>> \in eclaims
    /\ \A c \in Consumers :
          cpc[c] \in {"read", "release"} => BagIn(cpos[c], dclaims)

\* C24: a lost CAS has no effect.  An iteration whose compare_exchange on the
\* position counter fails writes neither the slot's value nor its sequence nor
\* the counter, goes on with pos set to the counter value the failed CAS
\* observed, and evaluates the slot of that pos before any write; the call
\* ends with true or false.
LostCasNoEffect == [][LostCasStep]_vars /\ []LostCasState

\* two producers raced on one pos; one has won the CAS and holds the slot, the
\* CAS of the other is about to fail on the counter that has moved on
LostCasNoEffect_witness ==
    \E p \in Producers, q \in Producers :
        /\ ppc[p] = "cas" /\ ppos[p] < enqueue_pos_
        /\ ppc[q] \in {"write", "publish"} /\ ppos[q] = ppos[p]


CounterRelationState ==
    /\ 0 <= dequeue_pos_
    /\ dequeue_pos_ <= enqueue_pos_
    /\ enqueue_pos_ <= dequeue_pos_ + Capacity
    \* the counters are the numbers of claims made
    /\ enqueue_pos_ = Cardinality(eclaims)
    /\ dequeue_pos_ = Cardinality(BagToSet(dclaims))
    /\ \A q \in Positions : ClaimedByProducer(q) <=> q < enqueue_pos_
    /\ \A q \in Positions : BagIn(q, dclaims) <=> q < dequeue_pos_

CounterRelationStep ==
    /\ enqueue_pos_' \in {enqueue_pos_, enqueue_pos_ + 1}
    /\ dequeue_pos_' \in {dequeue_pos_, dequeue_pos_ + 1}
    /\ dequeue_pos_' # dequeue_pos_ =>
          /\ Published(dequeue_pos_)
          /\ \E c \in Consumers : cpc[c] = "cas" /\ cpc'[c] = "read" /\ cpos[c] = dequeue_pos_
    /\ enqueue_pos_' # enqueue_pos_ =>
          /\ enqueue_pos_ >= Capacity => Released(enqueue_pos_ - Capacity)
          /\ \E p \in Producers : ppc[p] = "cas" /\ ppc'[p] = "write" /\ ppos[p] = enqueue_pos_

\* C25: counter relation.  0 <= dequeue_pos_ <= enqueue_pos_ <= dequeue_pos_ +
\* capacity in every reachable state; both counters change only by +1; a
\* consumer claims position d only after the producer of d has published it,
\* and a producer claims position p >= capacity only after the consumer of
\* p - capacity has released the slot.
CounterRelation == []CounterRelationState /\ [][CounterRelationStep]_vars

\* the queue is full in its second lap: a producer has claimed a position
\* p >= capacity and the counters are capacity apart
CounterRelation_witness ==
    /\ dequeue_pos_ > 0
    /\ enqueue_pos_ > Capacity
    /\ enqueue_pos_ = dequeue_pos_ + Capacity


(***************************************************************************)
(* MPMCQueue: integer wraparound                                           *)
(***************************************************************************)
\* the words the program holds
WordsInRange ==
    /\ wordBits >= 2 /\ Capacity <= Pow2(wordBits - 1)
    /\ \A i \in DOMAIN buffer_ : CellIndex(Word(buffer_[i].sequence)) \in {i, (i + 1) % Capacity}

BqCount(seq, P(_)) == Cardinality({k \in DOMAIN seq : P(seq[k])})

BqPushedBy(p) == BqCount(bpushed, LAMBDA v : \E i \in 0..(bitems - 1) : v = BqVal(p, i))

BqBoundState ==
    /\ Len(bqueue_) <= capacity_
    /\ \A p \in BqProducers :
          /\ benq[p] = "push" => Len(bqueue_) < capacity_ /\ bmutex_ = BqP(p)
          /\ BqPushedBy(p) = bi[p] + (IF benq[p] \in {"notify", "unlock"} THEN 1 ELSE 0)
          /\ benq[p] = "done" <=> bi[p] = bitems
    /\ Len(bpopped) =
          btotal + Cardinality({c \in BqConsumers : bdeq[c] \in {"notify", "unlock", "ret_true"}})
    /\ bpopped \o bqueue_ = bpushed

BqReturnsFalseStep ==
    \A c \in BqConsumers :
       bdeq[c] # "ret_false" /\ bdeq'[c] = "ret_false" =>
          /\ bqueue_ = << >>
          /\ UNCHANGED <<bqueue_, not_empty_, not_full_, btotal, benq, bi, bval, bqHist>>
          /\ \A d \in BqConsumers \ {c} : bdeq'[d] = bdeq[d]

BlockingQueueBoundAndOrder == []BqBoundState /\ [][BqReturnsFalseStep]_vars

\* A consumer's call has returned false after an element went through the
\* queue, the queue is full again, and a producer waits on not_full_.
BlockingQueueBoundAndOrder_witness ==
    /\ \E c \in BqConsumers : bdeq[c] = "ret_false"
    /\ Len(bpopped) >= 1
    /\ Len(bqueue_) = capacity_
    /\ \E p \in BqProducers : benq[p] = "blocked" /\ p \in not_full_


(***************************************************************************)
(* C28  The BlockingQueue benchmark terminates.  Under fair scheduling     *)
(* every run reaches, and stays in, a state where every producer has       *)
(* finished its items, every consumer has left its loop, total_consumed is *)
(* P*N and no thread is blocked on not_full_ or not_empty_: no thread      *)
(* waits for ever, a producer that blocked on a full queue was woken.      *)
(* total_consumed never exceeds P*N.                                       *)
(***************************************************************************)
BqFinished ==
    /\ \A p \in BqProducers : benq[p] = "done"
    /\ \A c \in BqConsumers : bdeq[c] = "done"
    /\ btotal = BqTotalItems
    /\ bqueue_ = << >>
    /\ bmutex_ = << >>

\* no thread is blocked on a condition variable
BqNoneWaiting ==
    /\ not_full_ = {} /\ not_empty_ = {}
    /\ \A p \in BqProducers : benq[p] # "blocked"
    /\ \A c \in BqConsumers : bdeq[c] # "blocked"

BlockingQueueTerminates ==
    /\ <>[](BqFinished /\ BqNoneWaiting)
    /\ [](btotal <= BqTotalItems)

\* The run is over, with more items consumed than the queue can hold at once:
\* room had to appear for a producer to finish.
BlockingQueueTerminates_witness ==
    /\ BqFinished
    /\ BqTotalItems > capacity_
    /\ Cardinality(BqProducers) > 1


(***************************************************************************)
(* JobScheduler (src/scheduler.cpp): the scheduler thread in run(), and    *)
(* the thread that owns the scheduler, which calls schedule and            *)
(* recurringSchedule and then destroys it, while the clock advances.       *)
(* Every access to is_stopped, every critical section of mtx, every        *)
(* evaluation of a wait predicate, the block that follows a false          *)
(* predicate and every wake-up (notified, spurious, timed out) is a step.  *)
(***************************************************************************)
\* The clock is counted from 0 to MaxTime; the owner makes at most MaxJobs
\* schedule calls, with times 0..MaxTime and periods 0..MaxAfter.
MaxTime == 2
MaxJobs == 2
MaxAfter == 1

schRest == <<mpmcVars, logVars, cfgVars, bqVars, lastVars>>

\* Job::Job: is_recurring(after != Duration::zero())
Job(id, when, after) == [id |-> id, when |-> when, after |-> after]

is_recurring(j) == j.after # 0

\* mutant: the queue gives the job with the largest when
TopJobs_Latest(q) == {j \in q : \A k \in q : k.when <= j.when}

\* Job::operator< orders the priority_queue so that top() is a job with the
\* smallest when (which one of several, the heap decides)
TopJobs(q) == {j \in q : \A k \in q : j.when <= k.when}

\* pq.top().when
TopWhen(q) == (CHOOSE j \in TopJobs(q) : TRUE).when

\* JobScheduler::JobScheduler: the members' initialisers, the thread is started
SchInit ==
    /\ MpmcIdle
    /\ LogIdle
    /\ CfgIdle
    /\ BqIdle /\ LastIdle
    /\ now = 0 /\ pq = {} /\ mtx = << >> /\ cv = {} /\ is_stopped = FALSE /\ counter = 0
    /\ rpc = "test" /\ next_run_time = 0 /\ job = << >>
    /\ mpc = "idle" /\ newJob = << >>
    /\ scheduled = {} /\ dispatched = [id \in 0..(MaxJobs - 1) |-> 0]

\* time passes
Tick ==
    /\ rpc # "off"
    /\ now < MaxTime
    /\ now' = now + 1
    /\ UNCHANGED <<pq, mtx, cv, is_stopped, counter, rpc, next_run_time, job, mpc, newJob,
                   scheduled, dispatched, schRest>>

\* cv.notify_all(): every thread blocked on cv (the scheduler thread, if it
\* is) is woken and will take the mutex again
NotifyAll ==
    /\ cv' = {}
    /\ rpc' = IF "run" \in cv
              THEN (IF rpc = "blocked_empty" THEN "relock_empty" ELSE "relock_until")
              ELSE rpc

(* ---- the owner thread ---- *)
\* schedule(task, t): int jobId = counter++
Schedule ==
    /\ mpc = "idle"
    /\ counter < MaxJobs
    /\ \E t \in 0..MaxTime : newJob' = Job(counter, t, 0)
    /\ counter' = counter + 1
    /\ mpc' = "push"
    /\ UNCHANGED <<now, pq, mtx, cv, is_stopped, rpc, next_run_time, job, scheduled, dispatched,
                   schRest>>

\* recurringSchedule(task, t, d): int jobId = counter++
RecurringSchedule ==
    /\ mpc = "idle"
    /\ counter < MaxJobs
    /\ \E t \in 0..MaxTime, d \in 0..MaxAfter : newJob' = Job(counter, t, d)
    /\ counter' = counter + 1
    /\ mpc' = "push"
    /\ UNCHANGED <<now, pq, mtx, cv, is_stopped, rpc, next_run_time, job, scheduled, dispatched,
                   schRest>>

\* { unique_lock<mutex> lock(mtx); pq.push(Job(...)); }
SchedulePush ==
    /\ mpc = "push"
    /\ mtx = << >>
    /\ pq' = pq \cup {newJob}
    /\ scheduled' = scheduled \cup {newJob}
    /\ mpc' = "notify"
    /\ UNCHANGED <<now, mtx, cv, is_stopped, counter, rpc, next_run_time, job, newJob, dispatched,
                   schRest>>

\* mutant: schedule does not notify
ScheduleNotify_None ==
    /\ mpc = "notify"
    /\ mpc' = "idle"
    /\ newJob' = << >>
    /\ UNCHANGED <<now, pq, mtx, cv, is_stopped, counter, rpc, next_run_time, job, scheduled,
                   dispatched, schRest>>

\* cv.notify_all(); return jobId
ScheduleNotify ==
    /\ mpc = "notify"
    /\ NotifyAll
    /\ mpc' = "idle"
    /\ newJob' = << >>
    /\ UNCHANGED <<now, pq, mtx, is_stopped, counter, next_run_time, job, scheduled, dispatched,
                   schRest>>

\* ~JobScheduler: stop(): is_stopped = true (mtx is not taken)
StopStore ==
    /\ mpc = "idle"
    /\ is_stopped' = TRUE
    /\ mpc' = "stop_notify"
    /\ UNCHANGED <<now, pq, mtx, cv, counter, rpc, next_run_time, job, newJob, scheduled,
                   dispatched, schRest>>

\* stop(): cv.notify_all()
StopNotify ==
    /\ mpc = "stop_notify"
    /\ NotifyAll
    /\ mpc' = "join"
    /\ UNCHANGED <<now, pq, mtx, is_stopped, counter, next_run_time, job, newJob, scheduled,
                   dispatched, schRest>>

\* ~JobScheduler: scheduler_thread.join() returns when run() has returned
Join ==
    /\ mpc = "join"
    /\ rpc = "exited"
    /\ mpc' = "destroyed"
    /\ UNCHANGED <<now, pq, mtx, cv, is_stopped, counter, rpc, next_run_time, job, newJob,
                   scheduled, dispatched, schRest>>

(* ---- the scheduler thread: run() ---- *)
\* while (!is_stopped)
RunTest ==
    /\ rpc = "test"
    /\ rpc' = IF is_stopped THEN "exited" ELSE "lock"
    /\ UNCHANGED <<now, pq, mtx, cv, is_stopped, counter, next_run_time, job, mpc, newJob,
                   scheduled, dispatched, schRest>>

\* unique_lock<mutex> lock(mtx); if (pq.empty())
RunLock ==
    /\ rpc = "lock"
    /\ mtx = << >>
    /\ mtx' = <<"run">>
    /\ rpc' = IF pq = {} THEN "wait_empty" ELSE "check"
    /\ UNCHANGED <<now, pq, cv, is_stopped, counter, next_run_time, job, mpc, newJob, scheduled,
                   dispatched, schRest>>

\* cv.wait(lock, pred): the predicate !pq.empty() || is_stopped
RunWaitEmpty ==
    /\ rpc = "wait_empty"
    /\ rpc' = IF pq # {} \/ is_stopped THEN "check" ELSE "block_empty"
    /\ UNCHANGED <<now, pq, mtx, cv, is_stopped, counter, next_run_time, job, mpc, newJob,
                   scheduled, dispatched, schRest>>

\* the predicate was false: wait releases the mutex and blocks, atomically
RunBlockEmpty ==
    /\ rpc = "block_empty"
    /\ mtx' = << >>
    /\ cv' = cv \cup {"run"}
    /\ rpc' = "blocked_empty"
    /\ UNCHANGED <<now, pq, is_stopped, counter, next_run_time, job, mpc, newJob, scheduled,
                   dispatched, schRest>>

\* a spurious wake-up
RunWakeEmpty ==
    /\ rpc = "blocked_empty"
    /\ cv' = cv \ {"run"}
    /\ rpc' = "relock_empty"
    /\ UNCHANGED <<now, pq, mtx, is_stopped, counter, next_run_time, job, mpc, newJob, scheduled,
                   dispatched, schRest>>

\* woken: wait takes the mutex again, then evaluates the predicate again
RunRelockEmpty ==
    /\ rpc = "relock_empty"
    /\ mtx = << >>
    /\ mtx' = <<"run">>
    /\ rpc' = "wait_empty"
    /\ UNCHANGED <<now, pq, cv, is_stopped, counter, next_run_time, job, mpc, newJob, scheduled,
                   dispatched, schRest>>

\* if (is_stopped) break (the lock is released); auto next_run_time = pq.top().when
RunCheck ==
    /\ rpc = "check"
    /\ IF is_stopped
       THEN /\ rpc' = "exited"
            /\ mtx' = << >>
            /\ UNCHANGED next_run_time
       ELSE /\ rpc' = "wait_until"
            /\ next_run_time' = TopWhen(pq)
            /\ UNCHANGED mtx
    /\ UNCHANGED <<now, pq, cv, is_stopped, counter, job, mpc, newJob, scheduled, dispatched,
                   schRest>>

\* cv.wait_until(lock, next_run_time, pred): the predicate
\* is_stopped || pq.top().when < next_run_time
RunWaitUntil ==
    /\ rpc = "wait_until"
    /\ rpc' = IF is_stopped \/ TopWhen(pq) < next_run_time THEN "due" ELSE "block_until"
    /\ UNCHANGED <<now, pq, mtx, cv, is_stopped, counter, next_run_time, job, mpc, newJob,
                   scheduled, dispatched, schRest>>

\* the predicate was false: wait_until releases the mutex and blocks, atomically
RunBlockUntil ==
    /\ rpc = "block_until"
    /\ mtx' = << >>
    /\ cv' = cv \cup {"run"}
    /\ rpc' = "blocked_until"
    /\ UNCHANGED <<now, pq, is_stopped, counter, next_run_time, job, mpc, newJob, scheduled,
                   dispatched, schRest>>

\* a spurious wake-up
RunWakeUntil ==
    /\ rpc = "blocked_until"
    /\ cv' = cv \ {"run"}
    /\ rpc' = "relock_until"
    /\ UNCHANGED <<now, pq, mtx, is_stopped, counter, next_run_time, job, mpc, newJob, scheduled,
                   dispatched, schRest>>

\* next_run_time is reached.  The clock is counted up to MaxTime only: at
\* MaxTime time goes on uncounted, and a later deadline is reached as well.
RunTimeout ==
    /\ rpc = "blocked_until"
    /\ now >= next_run_time \/ now = MaxTime
    /\ cv' = cv \ {"run"}
    /\ rpc' = "timedout"
    /\ UNCHANGED <<now, pq, mtx, is_stopped, counter, next_run_time, job, mpc, newJob, scheduled,
                   dispatched, schRest>>

\* woken before next_run_time: the mutex is taken again, the predicate
\* evaluated again
RunRelockUntil ==
    /\ rpc = "relock_until"
    /\ mtx = << >>
    /\ mtx' = <<"run">>
    /\ rpc' = "wait_until"
    /\ UNCHANGED <<now, pq, cv, is_stopped, counter, next_run_time, job, mpc, newJob, scheduled,
                   dispatched, schRest>>

\* timed out: the mutex is taken again and wait_until returns (its result is
\* not used)
RunRelockTimedOut ==
    /\ rpc = "timedout"
    /\ mtx = << >>
    /\ mtx' = <<"run">>
    /\ rpc' = "due"
    /\ UNCHANGED <<now, pq, cv, is_stopped, counter, next_run_time, job, mpc, newJob, scheduled,
                   dispatched, schRest>>

\* mutant: the job on top is taken whether it is due or not
RunDue_NoClock ==
    /\ rpc = "due"
    /\ \E j \in TopJobs(pq) :
          /\ job' = j
          /\ pq' = pq \ {j}
          /\ dispatched' = [dispatched EXCEPT ![j.id] = dispatched[j.id] + 1]
    /\ rpc' = "detach"
    /\ mtx' = << >>
    /\ UNCHANGED <<now, cv, is_stopped, counter, next_run_time, mpc, newJob, scheduled, schRest>>

\* if (pq.top().when <= Clock::now()) { auto job = pq.top(); pq.pop();
\* lock.unlock(); ...; otherwise the lock is released at the end of the scope
RunDue ==
    /\ rpc = "due"
    /\ IF TopWhen(pq) <= now
       THEN /\ \E j \in TopJobs(pq) :
                  /\ job' = j
                  /\ pq' = pq \ {j}
                  /\ dispatched' = [dispatched EXCEPT ![j.id] = dispatched[j.id] + 1]
            /\ rpc' = "detach"
       ELSE /\ rpc' = "test"
            /\ UNCHANGED <<job, pq, dispatched>>
    /\ mtx' = << >>
    /\ UNCHANGED <<now, cv, is_stopped, counter, next_run_time, mpc, newJob, scheduled, schRest>>

\* mutant: a one-shot job is pushed again as well
RunDetach_AlwaysAgain ==
    /\ rpc = "detach"
    /\ job' = [job EXCEPT !.when = job.when + 1]
    /\ rpc' = "repush"
    /\ UNCHANGED <<now, pq, mtx, cv, is_stopped, counter, next_run_time, mpc, newJob, scheduled,
                   dispatched, schRest>>

\* mutant: the next deadline is counted from the clock
RunDetach_FromNow ==
    /\ rpc = "detach"
    /\ IF is_recurring(job)
       THEN /\ job' = [job EXCEPT !.when = now + job.after]
            /\ rpc' = "repush"
       ELSE /\ job' = << >>
            /\ rpc' = "test"
    /\ UNCHANGED <<now, pq, mtx, cv, is_stopped, counter, next_run_time, mpc, newJob, scheduled,
                   dispatched, schRest>>

\* thread(job.task).detach(); if (job.is_recurring) { job.when += job.after;
RunDetach ==
    /\ rpc = "detach"
    /\ IF is_recurring(job)
       THEN /\ job' = [job EXCEPT !.when = job.when + job.after]
            /\ rpc' = "repush"
       ELSE /\ job' = << >>
            /\ rpc' = "test"
    /\ UNCHANGED <<now, pq, mtx, cv, is_stopped, counter, next_run_time, mpc, newJob, scheduled,
                   dispatched, schRest>>

\* lock.lock(); pq.push(job); lock.unlock(); }
RunRepush ==
    /\ rpc = "repush"
    /\ mtx = << >>
    /\ pq' = pq \cup {job}
    /\ job' = << >>
    /\ rpc' = "test"
    /\ UNCHANGED <<now, mtx, cv, is_stopped, counter, next_run_time, mpc, newJob, scheduled,
                   dispatched, schRest>>

\* the steps of the scheduler thread, timing out included
RunStep ==
    \/ RunTest \/ RunLock \/ RunWaitEmpty \/ RunBlockEmpty \/ RunRelockEmpty \/ RunCheck
    \/ RunWaitUntil \/ RunBlockUntil \/ RunTimeout \/ RunRelockUntil \/ RunRelockTimedOut
    \/ RunDue \/ RunDetach \/ RunRepush

\* the steps of a call the owner has begun
OwnerStep == SchedulePush \/ ScheduleNotify \/ StopNotify \/ Join

SchNext ==
    \/ Tick
    \/ Schedule
    \/ RecurringSchedule
    \/ SchedulePush
    \/ ScheduleNotify
    \/ StopStore
    \/ StopNotify
    \/ Join
    \/ RunTest
    \/ RunLock
    \/ RunWaitEmpty
    \/ RunBlockEmpty
    \/ RunWakeEmpty
    \/ RunRelockEmpty
    \/ RunCheck
    \/ RunWaitUntil
    \/ RunBlockUntil
    \/ RunWakeUntil
    \/ RunTimeout
    \/ RunRelockUntil
    \/ RunRelockTimedOut
    \/ RunDue
    \/ RunDetach
    \/ RunRepush

SchSpec == SchInit /\ [][SchNext]_vars

\* Fair scheduling: the scheduler thread and a call of the owner go on when
\* they can, time passes, and a deadline that is reached ends the wait.
\* Spurious wake-ups are never required, and the owner need not make
\* another call.
SchFairness ==
    /\ WF_vars(RunStep)
    /\ WF_vars(OwnerStep)
    /\ WF_vars(Tick)
    /\ SF_vars(RunTimeout)

SchLiveSpec == SchSpec /\ SchFairness


(***************************************************************************)
(* C29  JobScheduler shutdown.  Once stop() has set is_stopped, run()      *)
(* leaves its loop and the destructor's join returns, in every             *)
(* interleaving of stop() with run() under fair scheduling.                *)
(***************************************************************************)
ShutdownDone == rpc = "exited" /\ mpc = "destroyed"

ShutdownCompletes == []<>(~is_stopped \/ ShutdownDone)


(***************************************************************************)
(* C30  JobScheduler dispatch order and time, as stated: run() takes a job *)
(* to start it only when the job's when is <= the clock, the job taken has *)
(* the smallest when of the jobs queued at that moment, and a one-shot job *)
(* scheduled before stop() is dispatched exactly once: when the scheduler  *)
(* has been destroyed, every one-shot job that was scheduled has been      *)
(* dispatched once.                                                        *)
(***************************************************************************)
\* run() takes a job out of pq to start it
Dispatch == rpc = "due" /\ rpc' = "detach"

DispatchStep ==
    /\ Dispatch =>
          /\ job' \in pq
          /\ job'.when <= now
          /\ \A k \in pq : job'.when <= k.when
          /\ pq' = pq \ {job'}
          /\ dispatched' = [dispatched EXCEPT ![job'.id] = dispatched[job'.id] + 1]
    /\ ~Dispatch => dispatched' = dispatched

OneShots == {j \in scheduled : ~is_recurring(j)}

OneShotState ==
    \A j \in OneShots :
       /\ dispatched[j.id] \in {0, 1}
       /\ dispatched[j.id] = 0 <=> j \in pq
       /\ \A k \in pq : k.id = j.id => k = j

RepushStep ==
    \A k \in pq' \ pq :
       \/ k = newJob /\ mpc = "push"
       \/ /\ rpc = "repush" /\ k = job
          /\ is_recurring(k) /\ dispatched[k.id] >= 1
          /\ \E j \in scheduled : j.id = k.id /\ j.after = k.after /\ j.when < k.when

DispatchOrderAndTime_dropped ==
    /\ mpc = "destroyed"
    /\ \E j \in OneShots : dispatched[j.id] = 0 /\ j \in pq /\ j.when = 0


(***************************************************************************)
(* C31  JobScheduler re-arms on an earlier job.  While the scheduler       *)
(* thread is blocked in wait_until for next_run_time, no job with an       *)
(* earlier when is in pq, but between the push of a schedule call and its  *)
(* notify_all; while it is blocked in wait on the empty queue, pq is       *)
(* empty, but between that push and its notify_all: no notification of a   *)
(* schedule call is lost.  A job that is taken is never later than a job   *)
(* left in pq, and the deadline the thread waits for next is the smallest  *)
(* when in pq.                                                             *)
(***************************************************************************)
\* the scheduler thread is blocked on cv, and no notification is on its way
AsleepUntil == rpc = "blocked_until" /\ "run" \in cv /\ mpc # "notify"

AsleepEmpty == rpc = "blocked_empty" /\ "run" \in cv /\ mpc # "notify"

RearmState ==
    /\ AsleepUntil => pq # {} /\ TopWhen(pq) >= next_run_time
    /\ AsleepEmpty => pq = {}

\* run() takes the deadline to wait for from the top of pq
RearmStep ==
    rpc = "check" /\ rpc' = "wait_until" =>
        /\ pq # {}
        /\ \A k \in pq : next_run_time' <= k.when
        /\ \E k \in pq : next_run_time' = k.when

RearmsOnEarlierJob ==
    /\ []RearmState
    /\ [][RearmStep]_vars
    /\ [][DispatchStep]_vars

\* the scheduler thread, woken by a schedule call while it waited for a later
\* deadline, has taken the job that call added, and the later job is queued
RearmsOnEarlierJob_witness ==
    /\ rpc = "detach"
    /\ job.id = 1
    /\ next_run_time = job.when
    /\ \E k \in pq : k.id = 0 /\ k.when > job.when /\ dispatched[0] = 0


(***************************************************************************)
(* C32  JobScheduler recurring jobs.  A job of recurringSchedule(task, t,  *)
(* d) with d > 0 is taken at the deadlines t, t + d, t + 2d, ...: its n-th *)
(* dispatch is with when = t + (n - 1) * d, after which it is pushed again *)
(* with the same id and period and when advanced by d.  At any time it is  *)
(* either once in pq or in the hands of run() between pop and push, never  *)
(* both and never twice.  pq loses no job but the one run() takes: between *)
(* the pop and the push again every other job stays queued.                *)
(***************************************************************************)
Recurring == {j \in scheduled : is_recurring(j)}

\* run() holds the job: popped and not yet pushed again
InHand(id) == rpc \in {"detach", "repush"} /\ job.id = id

\* the deadline of a job that was dispatched n times
Deadline(j, n) == j.when + n * j.after

RecurringState ==
    \A j \in Recurring :
       /\ \A k \in pq : k.id = j.id => k = Job(j.id, Deadline(j, dispatched[j.id]), j.after)
       /\ InHand(j.id) /\ rpc = "detach" =>
             job = Job(j.id, Deadline(j, dispatched[j.id] - 1), j.after)
       /\ InHand(j.id) /\ rpc = "repush" =>
             job = Job(j.id, Deadline(j, dispatched[j.id]), j.after)
       /\ InHand(j.id) <=> ~(\E k \in pq : k.id = j.id)

RecurringStep ==
    /\ Dispatch => pq' = pq \ {job'} /\ job' \in pq
    /\ ~Dispatch => pq \subseteq pq'
    /\ \A j \in Recurring :
          Dispatch /\ job'.id = j.id => job'.when = Deadline(j, dispatched[j.id])

RecurringDeadlines == []RecurringState /\ [][RecurringStep]_vars

\* a recurring job, dispatched twice, is about to be pushed for its third
\* deadline while another job waits in pq
RecurringDeadlines_witness ==
    /\ rpc = "repush"
    /\ job.after > 0
    /\ dispatched[job.id] = 2
    /\ \E j \in Recurring : j.id = job.id /\ job.when = j.when + 2 * j.after
    /\ pq # {}


(***************************************************************************)
(* ConfigurationManager::addSource and reload over any sources.  A source  *)
(* is an IConfigSource: load() returns a map of some of the keys, and the  *)
(* callback given to watch is called when the source's data changed        *)
(* (MockSource::updateData is one such change).                            *)
(***************************************************************************)
\* addSource is called, or the data of a source change, MaxSourceOps times
\* in all
MaxSourceOps == 3

\* the values a source supplies for a key
SourceValues(k) ==
    CASE k = "max_connections" -> {IntValue(RangeMin), IntValue(RangeMax), IntValue(RangeMax + 1)}
      [] k = "app_name" -> {StringValue(0)}
      [] k = "debug_mode" -> {BoolValue(TRUE)}

\* what load() can return
SourceData ==
    UNION {{d \in [S -> UNION {SourceValues(k) : k \in Keys}] : \A k \in S : d[k] \in SourceValues(k)} :
              S \in SUBSET Keys}

\* getInstance(), addValidator as in main, registerObserver or not
MergeInit ==
    /\ MpmcIdle
    /\ LogIdle
    /\ MoreIdle
    /\ validators = [k \in {"max_connections"} |-> <<RangeMin, RangeMax>>]
    /\ configStore = << >>
    /\ cfgWriter = << >> /\ cfgReaders = {}
    /\ upc = "idle" /\ newStore = << >> /\ oit = 0 /\ notified = 0
    /\ storeAtCall = << >> /\ notifiedAtCall = 0
    /\ sources = << >>
    /\ observers \in {<< >>, <<TRUE>>}
    /\ updates = MaxSourceOps
    /\ gpc = << >> /\ gkey = << >> /\ gtype = << >> /\ gres = << >> /\ gcalls = << >>
    /\ gsnap = << >>

\* addSource(source): sources.push_back(source); source->watch(...); reload()
AddSource(data) ==
    /\ upc = "idle"
    /\ updates > 0
    /\ sources' = Append(sources, data)
    /\ updates' = updates - 1
    /\ storeAtCall' = configStore
    /\ notifiedAtCall' = notified
    /\ upc' = "rlock"
    /\ UNCHANGED <<configStore, cfgWriter, cfgReaders, validators, newStore, observerVars,
                   readerVars, mpmcVars, logVars, moreVars>>

\* the source's data changed and it calls the callback set by addSource,
\* which calls reload()
SourceChanged(src, data) ==
    /\ upc = "idle"
    /\ updates > 0
    /\ sources[src] # data
    /\ sources' = [sources EXCEPT ![src] = data]
    /\ updates' = updates - 1
    /\ storeAtCall' = configStore
    /\ notifiedAtCall' = notified
    /\ upc' = "rlock"
    /\ UNCHANGED <<configStore, cfgWriter, cfgReaders, validators, newStore, observerVars,
                   readerVars, mpmcVars, logVars, moreVars>>

MergeNext ==
    \/ \E data \in SourceData : AddSource(data)
    \/ \E src \in DOMAIN sources, data \in SourceData : SourceChanged(src, data)
    \/ ReloadLock
    \/ ReloadMerge
    \/ ReloadValidate
    \/ ReloadSwap
    \/ ReloadUnlock
    \/ NotifyObservers

MergeSpec == MergeInit /\ [][MergeNext]_vars

(***************************************************************************)
(* C33  Source priority on reload.  The store a successful reload commits  *)
(* has exactly the keys of all sources together, each with the value of    *)
(* the last-added source that has the key; a key of the store before the   *)
(* reload that no source supplies any more is not in it.  A call that      *)
(* returned has either committed that store or, its validation failing,    *)
(* left the store as it was.                                               *)
(***************************************************************************)
\* the sources that have the key, by their place in addSource order
Suppliers(k) == {i \in DOMAIN sources : k \in DOMAIN sources[i]}

Last(S) == CHOOSE i \in S : \A j \in S : j <= i

PriorityStore ==
    [k \in UNION {DOMAIN sources[i] : i \in DOMAIN sources} |-> sources[Last(Suppliers(k))][k]]

Commit == upc = "swap" /\ upc' = "unlock"

SourcePriorityStep ==
    Commit =>
       /\ configStore' = PriorityStore
       /\ \A k \in DOMAIN configStore : Suppliers(k) = {} => k \notin DOMAIN configStore'

SourcePriorityState ==
    upc = "idle" =>
       \/ configStore = PriorityStore /\ ~ValidationFails(PriorityStore)
       \/ configStore = storeAtCall /\ ValidationFails(PriorityStore)

SourcePriority == [][SourcePriorityStep]_vars /\ []SourcePriorityState

\* a reload is about to commit a store in which a later source overrides an
\* earlier one, an earlier source alone supplies another key, and a key of
\* the old store is supplied by no source any more
SourcePriority_witness ==
    /\ upc = "unlock"
    /\ Len(sources) = 2
    /\ configStore = PriorityStore
    /\ \E k \in DOMAIN sources[1] \cap DOMAIN sources[2] : sources[1][k] # sources[2][k]
    /\ DOMAIN sources[1] \ DOMAIN sources[2] # {}
    /\ DOMAIN storeAtCall \ DOMAIN configStore # {}


(***************************************************************************)
(* C34  Observer notification without deadlock.  Observers are called only *)
(* after reload has committed the new store and released the exclusive     *)
(* lock: the getValue an observer makes from onConfigChanged gets its      *)
(* shared lock and reads the store this reload committed.  Each observer   *)
(* that is alive is called once per successful reload, none during a       *)
(* reload that has not committed or does not commit; an expired observer   *)
(* is erased from the list and not called.                                 *)
(***************************************************************************)
\* notifyObservers calls an observer / erases one
ObserverCalled == notified' = notified + 1
ObserverErased == Len(observers') < Len(observers)

NotificationState ==
    /\ upc \notin {"notify", "idle"} => notified = notifiedAtCall
    /\ upc = "notify" =>
          /\ cfgWriter = << >>
          /\ configStore = MergeUpTo(Len(sources))
          /\ notified = notifiedAtCall + (oit - 1)
          /\ \A i \in 1..(oit - 1) : observers[i]
    /\ upc = "idle" =>
          \/ notified = notifiedAtCall
          \/ notified = notifiedAtCall + Len(observers) /\ \A i \in DOMAIN observers : observers[i]

NotificationStep ==
    /\ notified' # notified => ObserverCalled
    /\ ObserverCalled =>
          /\ upc = "notify" /\ cfgWriter = << >> /\ cfgWriter' = << >>
          /\ observers[oit] /\ oit' = oit + 1 /\ observers' = observers
          /\ ValueIn(configStore, "debug_mode", "bool") =
                ValueIn(MergeUpTo(Len(sources)), "debug_mode", "bool")
          /\ configStore' = configStore
    /\ observers' # observers =>
          /\ ObserverErased /\ upc = "notify" /\ ~observers[oit]
          /\ Len(observers') = Len(observers) - 1
          /\ notified' = notified /\ oit' = oit
          /\ \A i \in DOMAIN observers' :
                observers'[i] = IF i < oit THEN observers[i] ELSE observers[i + 1]
    /\ upc = "notify" /\ upc' = "idle" =>
          notified = notifiedAtCall + Len(observers) /\ \A i \in DOMAIN observers : observers[i]
    /\ upc = "validate" /\ upc' = "idle" => notified = notifiedAtCall

ObserversNotified == []NotificationState /\ [][NotificationStep]_vars

\* a reload has committed a store that differs from the old one in the key
\* the observer reads, the first observer has been called, and the next one,
\* expired, is about to be erased
ObserversNotified_witness ==
    /\ upc = "notify"
    /\ oit = 2
    /\ Len(observers) >= 2 /\ ~observers[2]
    /\ notified = notifiedAtCall + 1
    /\ ValueIn(configStore, "debug_mode", "bool") # ValueIn(storeAtCall, "debug_mode", "bool")


(***************************************************************************)
(* CoffeeMachineContext (src/coffee_machine.cpp): the threads that call    *)
(* prepareCoffee, restockIngredient and triggerMaintenance on one machine. *)
(* Every load and store of the atomic state_ and every critical section of *)
(* the IngredientManager's mutex_ is a step.  Quantities are counted in    *)
(* tenths of a unit, which the recipes and the three scale factors keep    *)
(* whole.                                                                  *)
(***************************************************************************)
\* At most MaxCustomers threads make at most MaxCalls calls between them.
MaxCustomers == 2
MaxCalls == 3

cmRest == <<mpmcVars, logVars, cfgVars, bqVars, schVars, tpVars>>

\* initializeIngredients: currentQuantity of the five ingredients it adds
\* (CHOCOLATE is never added)
Stock ==
    [COFFEE_BEANS |-> 5000, WATER |-> 20000, MILK |-> 10000, SUGAR |-> 2000, FOAM |-> 5000]

\* initializeIngredients: minimumThreshold
minimumThreshold ==
    [COFFEE_BEANS |-> 500, WATER |-> 2000, MILK |-> 1000, SUGAR |-> 200, FOAM |-> 500]

\* initializeCoffeeTypes: the recipe and the brewing strategy of each id
coffeeTypes_ ==
    [espresso   |-> [recipe   |-> [COFFEE_BEANS |-> 180, WATER |-> 300],
                     strategy |-> "EspressoStrategy"],
     cappuccino |-> [recipe   |-> [COFFEE_BEANS |-> 180, WATER |-> 300, MILK |-> 1000,
                                   FOAM |-> 500],
                     strategy |-> "CappuccinoStrategy"],
     latte      |-> [recipe   |-> [COFFEE_BEANS |-> 180, WATER |-> 300, MILK |-> 1500],
                     strategy |-> "LatteStrategy"],
     filter     |-> [recipe   |-> [COFFEE_BEANS |-> 120, WATER |-> 2000],
                     strategy |-> "FilterCoffeeStrategy"]]

\* PaymentProcessor::PaymentProcessor: the methods that have a strategy
paymentStrategies == {"CASH", "CREDIT_CARD", "MOBILE_WALLET"}

\* the arguments the calls are made with: an id that is not a coffee type
\* and a PaymentMethod value that has no strategy are among them
OrderIds == {"espresso", "cappuccino", "mocha"}
CoffeeSizes == {"SMALL", "MEDIUM", "LARGE"}
PaymentMethods == paymentStrategies \cup {"OTHER"}
RestockTypes == {"COFFEE_BEANS", "FOAM"}
RestockAmounts == {0 - 4500}

\* Recipe::scaleForSize: every amount times 0.8, 1.0 or 1.2
scaleForSize(recipe, size) ==
    LET scaleFactor == IF size = "SMALL" THEN 8 ELSE IF size = "MEDIUM" THEN 10 ELSE 12
    IN  [i \in DOMAIN recipe |-> (recipe[i] * scaleFactor) \div 10]

\* CoffeeType::getScaledRecipe of the coffee type with this id
getScaledRecipe(order) == scaleForSize(coffeeTypes_[order[1]].recipe, order[2])

\* Ingredient::isLowStock
isLowStock(type, currentQuantity) == currentQuantity <= minimumThreshold[type]

\* Ingredient::canDispense
canDispense(currentQuantity, requiredAmount) == currentQuantity >= requiredAmount

\* IngredientManager::hasIngredients, under mutex_
hasIngredients(recipe) ==
    \A i \in DOMAIN recipe :
        i \in DOMAIN ingredients_ /\ canDispense(ingredients_[i], recipe[i])

\* IngredientManager::consumeIngredients: the quantities it leaves
Consumed(recipe) ==
    [i \in DOMAIN ingredients_ |->
        IF i \in DOMAIN recipe THEN ingredients_[i] - recipe[i] ELSE ingredients_[i]]

\* IngredientManager::consumeIngredients: the ingredients it reports as low
LowAfter(recipe) ==
    {i \in DOMAIN recipe \cap DOMAIN ingredients_ : isLowStock(i, Consumed(recipe)[i])}

\* BrewingStrategy::validateRecipe of the four strategies
validateRecipe(strategy, recipe) ==
    IF strategy = "EspressoStrategy" THEN "COFFEE_BEANS" \in DOMAIN recipe
    ELSE IF strategy = "FilterCoffeeStrategy"
         THEN "COFFEE_BEANS" \in DOMAIN recipe /\ "WATER" \in DOMAIN recipe
         ELSE "COFFEE_BEANS" \in DOMAIN recipe /\ "MILK" \in DOMAIN recipe

\* PaymentStrategy::processPayment of the three strategies: return true
processPayment(method) == TRUE

\* CoffeeMachineContext::CoffeeMachineContext, and n threads about to call it
CmSetup(n) ==
    /\ MpmcIdle
    /\ LogIdle
    /\ CfgIdle
    /\ BqIdle /\ SchIdle /\ TpIdle
    /\ state_ = "READY"
    /\ ingredients_ = Stock
    /\ alerts = 0
    /\ customers = 0..(n - 1)
    /\ kpc = [t \in customers |-> "idle"]
    /\ korder = [t \in customers |-> << >>]
    /\ calls = MaxCalls
    /\ payments = 0
    /\ kentry = [t \in customers |-> << >>]
    /\ kthrown = [t \in customers |-> "none"]

\* the call of thread t ends with this exception or result
Leave(t, how) ==
    /\ kpc' = [kpc EXCEPT ![t] = "idle"]
    /\ korder' = [korder EXCEPT ![t] = << >>]
    /\ kentry' = [kentry EXCEPT ![t] = << >>]
    /\ kthrown' = [kthrown EXCEPT ![t] = how]

\* mutant: the state is set to PAYMENT_PROCESSING before the coffee type is
\* looked up
prepareCoffee_PayFirst(t, id, size) ==
    /\ kpc[t] = "idle"
    /\ calls > 0
    /\ calls' = calls - 1
    /\ IF state_ # "READY"
       THEN Leave(t, "InvalidStateException") /\ UNCHANGED state_
       ELSE /\ state_' = "PAYMENT_PROCESSING"
            /\ IF id \notin DOMAIN coffeeTypes_
               THEN Leave(t, "CoffeeMachineException")
               ELSE /\ kpc' = [kpc EXCEPT ![t] = "has"]
                    /\ korder' = [korder EXCEPT ![t] = <<id, size>>]
                    /\ kentry' = [kentry EXCEPT ![t] = <<state_, ingredients_, payments>>]
                    /\ kthrown' = [kthrown EXCEPT ![t] = "none"]
    /\ UNCHANGED <<ingredients_, alerts, customers, payments, cmRest>>

\* prepareCoffee: validateState(MachineState::READY) loads state_ and throws
\* unless it is READY; coffeeTypes_.find(coffeeTypeId) throws when the id is
\* not there
prepareCoffee(t, id, size) ==
    /\ kpc[t] = "idle"
    /\ calls > 0
    /\ calls' = calls - 1
    /\ IF state_ # "READY"
       THEN Leave(t, "InvalidStateException")
       ELSE IF id \notin DOMAIN coffeeTypes_
            THEN Leave(t, "CoffeeMachineException")
            ELSE /\ kpc' = [kpc EXCEPT ![t] = "has"]
                 /\ korder' = [korder EXCEPT ![t] = <<id, size>>]
                 /\ kentry' = [kentry EXCEPT ![t] = <<state_, ingredients_, payments>>]
                 /\ kthrown' = [kthrown EXCEPT ![t] = "none"]
    /\ UNCHANGED <<state_, ingredients_, alerts, customers, payments, cmRest>>

\* prepareCoffee: ingredientManager_.hasIngredients(requiredRecipe), under
\* mutex_; throws when it is false
CheckIngredients(t) ==
    /\ kpc[t] = "has"
    /\ IF ~hasIngredients(getScaledRecipe(korder[t]))
       THEN Leave(t, "InsufficientIngredientsException")
       ELSE /\ kpc' = [kpc EXCEPT ![t] = "pay"]
            /\ UNCHANGED <<korder, kentry, kthrown>>
    /\ UNCHANGED <<state_, ingredients_, alerts, customers, calls, payments, cmRest>>

\* prepareCoffee: setState(MachineState::PAYMENT_PROCESSING)
SetPaymentProcessing(t) ==
    /\ kpc[t] = "pay"
    /\ state_' = "PAYMENT_PROCESSING"
    /\ kpc' = [kpc EXCEPT ![t] = "process"]
    /\ UNCHANGED <<ingredients_, alerts, customers, korder, calls, payments, kentry, kthrown,
                   cmRest>>

\* prepareCoffee: paymentProcessor_.processPayment(paymentMethod, ...), which
\* throws when the method has no strategy, and the throw that follows a
\* result of false; neither is inside the try block
ProcessPayment(t, method) ==
    /\ kpc[t] = "process"
    /\ IF method \notin paymentStrategies
       THEN Leave(t, "CoffeeMachineException") /\ UNCHANGED payments
       ELSE /\ payments' = payments + 1
            /\ IF ~processPayment(method)
               THEN Leave(t, "PaymentFailedException")
               ELSE /\ kpc' = [kpc EXCEPT ![t] = "paid"]
                    /\ UNCHANGED <<korder, kentry, kthrown>>
    /\ UNCHANGED <<state_, ingredients_, alerts, customers, calls, cmRest>>

\* prepareCoffee: setState(MachineState::READY) after the payment
SetReadyPaid(t) ==
    /\ kpc[t] = "paid"
    /\ state_' = "READY"
    /\ kpc' = [kpc EXCEPT ![t] = "start"]
    /\ UNCHANGED <<ingredients_, alerts, customers, korder, calls, payments, kentry, kthrown,
                   cmRest>>

\* prepareCoffee: setState(MachineState::BREWING)
SetBrewing(t) ==
    /\ kpc[t] = "start"
    /\ state_' = "BREWING"
    /\ kpc' = [kpc EXCEPT ![t] = "brew"]
    /\ UNCHANGED <<ingredients_, alerts, customers, korder, calls, payments, kentry, kthrown,
                   cmRest>>

\* prepareCoffee: coffeeType.brew(size) in the try block.  CoffeeType::brew
\* throws when validateRecipe rejects the scaled recipe; ex stands for any
\* other std::exception that leaves the try block (std::bad_alloc)
Brew(t, ex) ==
    /\ kpc[t] = "brew"
    /\ IF ex \/ ~validateRecipe(coffeeTypes_[korder[t][1]].strategy, getScaledRecipe(korder[t]))
       THEN kpc' = [kpc EXCEPT ![t] = "catch"]
       ELSE kpc' = [kpc EXCEPT ![t] = "consume"]
    /\ UNCHANGED <<state_, ingredients_, alerts, customers, korder, calls, payments, kentry,
                   kthrown, cmRest>>

\* prepareCoffee: ingredientManager_.consumeIngredients(requiredRecipe), under
\* mutex_: the amounts are subtracted without a check, and LOW_INGREDIENTS is
\* notified for every ingredient that is low afterwards
ConsumeIngredients(t) ==
    /\ kpc[t] = "consume"
    /\ ingredients_' = Consumed(getScaledRecipe(korder[t]))
    /\ alerts' = alerts + Cardinality(LowAfter(getScaledRecipe(korder[t])))
    /\ kpc' = [kpc EXCEPT ![t] = "finish"]
    /\ UNCHANGED <<state_, customers, korder, calls, payments, kentry, kthrown, cmRest>>

\* prepareCoffee: setState(MachineState::READY); return result
ReturnResult(t) ==
    /\ kpc[t] = "finish"
    /\ state_' = "READY"
    /\ Leave(t, "CoffeeResult")
    /\ UNCHANGED <<ingredients_, alerts, customers, calls, payments, cmRest>>

\* prepareCoffee: the catch block: setState(MachineState::READY); throw
CatchRethrow(t) ==
    /\ kpc[t] = "catch"
    /\ state_' = "READY"
    /\ Leave(t, "BrewingFailure")
    /\ UNCHANGED <<ingredients_, alerts, customers, calls, payments, cmRest>>

\* IngredientManager::restockIngredient, under mutex_ (main calls it with a
\* negative amount)
restockIngredient(t, type, amount) ==
    /\ kpc[t] = "idle"
    /\ calls > 0
    /\ calls' = calls - 1
    /\ IF type \in DOMAIN ingredients_
       THEN ingredients_' = [ingredients_ EXCEPT ![type] = @ + amount]
       ELSE UNCHANGED ingredients_
    /\ UNCHANGED <<state_, alerts, customers, kpc, korder, payments, kentry, kthrown, cmRest>>

\* triggerMaintenance: setState(MachineState::MAINTENANCE)
triggerMaintenance(t) ==
    /\ kpc[t] = "idle"
    /\ calls > 0
    /\ calls' = calls - 1
    /\ state_' = "MAINTENANCE"
    /\ kpc' = [kpc EXCEPT ![t] = "maintenance"]
    /\ UNCHANGED <<ingredients_, alerts, customers, korder, payments, kentry, kthrown, cmRest>>

\* triggerMaintenance: after the sleep, setState(MachineState::READY)
MaintenanceCompleted(t) ==
    /\ kpc[t] = "maintenance"
    /\ state_' = "READY"
    /\ kpc' = [kpc EXCEPT ![t] = "idle"]
    /\ UNCHANGED <<ingredients_, alerts, customers, korder, calls, payments, kentry, kthrown,
                   cmRest>>

CmNext ==
    \E t \in customers :
        \/ \E id \in OrderIds : \E size \in CoffeeSizes : prepareCoffee(t, id, size)
        \/ CheckIngredients(t)
        \/ SetPaymentProcessing(t)
        \/ \E method \in PaymentMethods : ProcessPayment(t, method)
        \/ SetReadyPaid(t)
        \/ SetBrewing(t)
        \/ \E ex \in BOOLEAN : Brew(t, ex)
        \/ ConsumeIngredients(t)
        \/ ReturnResult(t)
        \/ CatchRethrow(t)
        \/ \E type \in RestockTypes : \E amount \in RestockAmounts :
               restockIngredient(t, type, amount)
        \/ triggerMaintenance(t)
        \/ MaintenanceCompleted(t)

\* one thread makes every call, as main does
CmInit == CmSetup(1)

CmSpec == CmInit /\ [][CmNext]_vars

\* MaxCustomers threads share the machine
OrdersInit == CmSetup(MaxCustomers)

OrdersSpec == OrdersInit /\ [][CmNext]_vars


(***************************************************************************)
(* C35  Coffee machine returns to READY.  Whenever a prepareCoffee call    *)
(* that was entered in state READY completes, by returning a CoffeeResult  *)
(* or by throwing (unknown coffee type, insufficient ingredients, failed   *)
(* payment, brewing failure), the machine state after the call is READY,   *)
(* so that the next prepareCoffee is not rejected.  One thread makes the   *)
(* calls.                                                                  *)
(***************************************************************************)
\* this step is the last one of a prepareCoffee call of thread t
Completes(t) ==
    /\ kpc'[t] = "idle"
    /\ \/ kpc[t] \notin {"idle", "maintenance"}
       \/ \E id \in OrderIds : \E size \in CoffeeSizes : prepareCoffee(t, id, size)

\* the call of thread t that is in progress, or that this step makes, found
\* the state READY in validateState
EnteredReady(t) ==
    IF kpc[t] = "idle" THEN state_ = "READY" ELSE kentry[t][1] = "READY"

Rejected(t) == Completes(t) /\ kpc[t] \in {"idle", "has"}

\* what the call of thread t found when it began
Before(t) == IF kpc[t] = "idle" THEN <<state_, ingredients_, payments>> ELSE kentry[t]

\* the exception that ends the call in each of the three places
Rejection(t) ==
    IF kpc[t] = "has" THEN "InsufficientIngredientsException"
    ELSE IF state_ # "READY" THEN "InvalidStateException" ELSE "CoffeeMachineException"

RejectStep ==
    \A t \in customers :
        /\ Rejected(t) =>
              /\ <<state_, ingredients_, payments>>' = Before(t)
              /\ alerts' = alerts
              /\ kthrown'[t] = Rejection(t)
        /\ \A id \in OrderIds : \A size \in CoffeeSizes :
              prepareCoffee(t, id, size) /\ (state_ # "READY" \/ id \notin DOMAIN coffeeTypes_)
                  => Rejected(t)
        /\ kpc[t] = "has" /\ kpc'[t] # "has" /\ ~hasIngredients(getScaledRecipe(korder[t]))
              => Rejected(t)

RejectsWithoutSideEffects == [][RejectStep]_vars

\* a cappuccino was refused for lack of foam, and nothing was paid or taken
RejectsWithoutSideEffects_witness ==
    /\ kpc = (0 :> "idle")
    /\ kthrown[0] = "InsufficientIngredientsException"
    /\ state_ = "READY" /\ payments = 0
    /\ ingredients_["FOAM"] = 500 /\ ingredients_["COFFEE_BEANS"] = 5000


(***************************************************************************)
(* C37  Coffee machine under concurrent orders.  When several threads call *)
(* prepareCoffee on one machine, at most one call is past                  *)
(* validateState(READY) at any time, and every consumeIngredients          *)
(* subtracts a recipe that hasIngredients still accepts, so that no        *)
(* quantity it leaves is negative.                                         *)
(***************************************************************************)
\* the threads whose prepareCoffee call passed validateState and has not ended
PastValidate == {t \in customers : kpc[t] \notin {"idle", "maintenance"}}

OneOrderAtATime == Cardinality(PastValidate) <= 1

\* a step of consumeIngredients finds the check of hasIngredients still true
\* and leaves no negative quantity
ConsumeStep ==
    \A t \in customers :
        kpc[t] = "consume" /\ kpc'[t] = "finish" =>
            /\ hasIngredients(getScaledRecipe(korder[t]))
            /\ \A i \in DOMAIN getScaledRecipe(korder[t]) : ingredients_'[i] >= 0

ConcurrentOrders == []OneOrderAtATime /\ [][ConsumeStep]_vars


(***************************************************************************)
(* ThreadPool (src/logger_system.md): the worker threads in the loop the   *)
(* constructor starts, and the thread that owns the pool, which calls      *)
(* enqueue and then destroys it; a running task may call enqueue too.      *)
(* Every critical section of queueMutex, every evaluation of the wait      *)
(* predicate, the block that follows a false predicate and every wake-up   *)
(* (notified or spurious) is a step.                                       *)
(***************************************************************************)
\* A pool has at most MaxWorkers workers; at most MaxSubmits enqueue calls
\* are made.
MaxWorkers == 2
MaxSubmits == 2

tpRest == <<mpmcVars, logVars, cfgVars, bqVars, schVars, cmVars>>

\* the thread that constructs the pool, calls enqueue and destroys the pool;
\* the workers are 1..numThreads
Owner == 0

\* ThreadPool::ThreadPool(numThreads): stop(false), the workers are started
TpInit ==
    /\ MpmcIdle
    /\ LogIdle
    /\ CfgIdle
    /\ BqIdle /\ SchIdle /\ CmIdle
    /\ \E numThreads \in 0..MaxWorkers : workers = 1..numThreads
    /\ tasks = << >> /\ queueMutex = << >> /\ condition = {} /\ stop = FALSE
    /\ tpc = [th \in {Owner} \cup workers |-> IF th = Owner THEN "idle" ELSE "lock"]
    /\ epc = [th \in {Owner} \cup workers |-> "off"]
    /\ ttask = [w \in workers |-> 0]
    /\ joined = 0
    /\ submits = MaxSubmits
    /\ accepted = {} /\ started = [id \in 1..MaxSubmits |-> 0] /\ finished = {}
    /\ refused = 0

\* worker loop: unique_lock<mutex> lock(queueMutex)
PoolWorkerLock(w) ==
    /\ tpc[w] = "lock"
    /\ queueMutex = << >>
    /\ queueMutex' = <<w>>
    /\ tpc' = [tpc EXCEPT ![w] = "wait"]
    /\ UNCHANGED <<tasks, condition, stop, workers, epc, ttask, joined, submits, accepted,
                   started, finished, refused, tpRest>>

\* worker loop: condition.wait evaluates stop || !tasks.empty()
PoolWorkerWait(w) ==
    /\ tpc[w] = "wait"
    /\ tpc' = [tpc EXCEPT ![w] = IF stop \/ tasks # << >> THEN "check" ELSE "block"]
    /\ UNCHANGED <<tasks, queueMutex, condition, stop, workers, epc, ttask, joined, submits,
                   accepted, started, finished, refused, tpRest>>

\* worker loop: condition.wait, the predicate was false: the mutex is
\* released and the thread blocks
PoolWorkerBlock(w) ==
    /\ tpc[w] = "block"
    /\ queueMutex' = << >>
    /\ condition' = condition \cup {w}
    /\ tpc' = [tpc EXCEPT ![w] = "blocked"]
    /\ UNCHANGED <<tasks, stop, workers, epc, ttask, joined, submits, accepted, started,
                   finished, refused, tpRest>>

\* worker loop: condition.wait, a wake-up without a notification
PoolWorkerWakeSpurious(w) ==
    /\ tpc[w] = "blocked"
    /\ w \in condition
    /\ condition' = condition \ {w}
    /\ tpc' = [tpc EXCEPT ![w] = "relock"]
    /\ UNCHANGED <<tasks, queueMutex, stop, workers, epc, ttask, joined, submits, accepted,
                   started, finished, refused, tpRest>>

\* worker loop: condition.wait, the woken thread takes the mutex again
PoolWorkerRelock(w) ==
    /\ tpc[w] = "relock"
    /\ queueMutex = << >>
    /\ queueMutex' = <<w>>
    /\ tpc' = [tpc EXCEPT ![w] = "wait"]
    /\ UNCHANGED <<tasks, condition, stop, workers, epc, ttask, joined, submits, accepted,
                   started, finished, refused, tpRest>>

\* mutant: the worker exits as soon as stop is set
PoolWorkerCheck_StopOnly(w) ==
    /\ tpc[w] = "check"
    /\ queueMutex' = << >>
    /\ IF stop
       THEN /\ tpc' = [tpc EXCEPT ![w] = "exited"]
            /\ UNCHANGED <<tasks, ttask>>
       ELSE /\ ttask' = [ttask EXCEPT ![w] = Head(tasks)]
            /\ tasks' = Tail(tasks)
            /\ tpc' = [tpc EXCEPT ![w] = "run"]
    /\ UNCHANGED <<condition, stop, workers, epc, joined, submits, accepted, started, finished,
                   refused, tpRest>>

\* worker loop: if(stop && tasks.empty()) return; otherwise the front task is
\* moved out of the queue; the lock ends with the block
PoolWorkerCheck(w) ==
    /\ tpc[w] = "check"
    /\ queueMutex' = << >>
    /\ IF stop /\ tasks = << >>
       THEN /\ tpc' = [tpc EXCEPT ![w] = "exited"]
            /\ UNCHANGED <<tasks, ttask>>
       ELSE /\ ttask' = [ttask EXCEPT ![w] = Head(tasks)]
            /\ tasks' = Tail(tasks)
            /\ tpc' = [tpc EXCEPT ![w] = "run"]
    /\ UNCHANGED <<condition, stop, workers, epc, joined, submits, accepted, started, finished,
                   refused, tpRest>>

\* worker loop: task() is called, outside the lock
PoolWorkerCall(w) ==
    /\ tpc[w] = "run"
    /\ started' = [started EXCEPT ![ttask[w]] = @ + 1]
    /\ tpc' = [tpc EXCEPT ![w] = "running"]
    /\ UNCHANGED <<tasks, queueMutex, condition, stop, workers, epc, ttask, joined, submits,
                   accepted, finished, refused, tpRest>>

\* worker loop: task() returns (an exception of the task is kept in its
\* future), the loop goes round
TaskReturns(w) ==
    /\ tpc[w] = "running"
    /\ epc[w] = "off"
    /\ finished' = finished \cup {ttask[w]}
    /\ ttask' = [ttask EXCEPT ![w] = 0]
    /\ tpc' = [tpc EXCEPT ![w] = "lock"]
    /\ UNCHANGED <<tasks, queueMutex, condition, stop, workers, epc, joined, submits, accepted,
                   started, refused, tpRest>>

\* the threads that may call enqueue: the owner between its calls, and a
\* worker inside a task
MayEnqueue(th) ==
    /\ epc[th] = "off"
    /\ IF th = Owner THEN tpc[th] = "idle" ELSE tpc[th] = "running"

\* enqueue: the packaged_task is made, unique_lock<mutex> lock(queueMutex)
PoolEnqueueLock(th) ==
    /\ MayEnqueue(th)
    /\ submits > 0
    /\ submits' = submits - 1
    /\ queueMutex = << >>
    /\ queueMutex' = <<th>>
    /\ epc' = [epc EXCEPT ![th] = "locked"]
    /\ UNCHANGED <<tasks, condition, stop, workers, tpc, ttask, joined, accepted, started,
                   finished, refused, tpRest>>

\* enqueue: if(stop) throw runtime_error; tasks.emplace(...); the lock ends
\* with the block
PoolEnqueueEmplace(th) ==
    /\ epc[th] = "locked"
    /\ queueMutex' = << >>
    /\ IF stop
       THEN /\ refused' = refused + 1
            /\ epc' = [epc EXCEPT ![th] = "off"]
            /\ UNCHANGED <<tasks, accepted>>
       ELSE /\ tasks' = Append(tasks, Cardinality(accepted) + 1)
            /\ accepted' = accepted \cup {Cardinality(accepted) + 1}
            /\ epc' = [epc EXCEPT ![th] = "notify"]
            /\ UNCHANGED refused
    /\ UNCHANGED <<condition, stop, workers, tpc, ttask, joined, submits, started, finished,
                   tpRest>>

\* enqueue: condition.notify_one() wakes one of the blocked workers, if any
PoolEnqueueNotify(th) ==
    /\ epc[th] = "notify"
    /\ epc' = [epc EXCEPT ![th] = "off"]
    /\ IF condition = {}
       THEN UNCHANGED <<condition, tpc>>
       ELSE \E w \in condition :
                /\ condition' = condition \ {w}
                /\ tpc' = [tpc EXCEPT ![w] = "relock"]
    /\ UNCHANGED <<tasks, queueMutex, stop, workers, ttask, joined, submits, accepted, started,
                   finished, refused, tpRest>>

\* ~ThreadPool: stop = true under queueMutex
PoolDtorStop ==
    /\ tpc[Owner] = "idle"
    /\ epc[Owner] = "off"
    /\ queueMutex = << >>
    /\ stop' = TRUE
    /\ tpc' = [tpc EXCEPT ![Owner] = "notify_all"]
    /\ UNCHANGED <<tasks, queueMutex, condition, workers, epc, ttask, joined, submits, accepted,
                   started, finished, refused, tpRest>>

\* ~ThreadPool: condition.notify_all() wakes every blocked worker
PoolDtorNotifyAll ==
    /\ tpc[Owner] = "notify_all"
    /\ condition' = {}
    /\ tpc' = [th \in DOMAIN tpc |->
                  IF th = Owner THEN "join" ELSE IF th \in condition THEN "relock" ELSE tpc[th]]
    /\ UNCHANGED <<tasks, queueMutex, stop, workers, epc, ttask, joined, submits, accepted,
                   started, finished, refused, tpRest>>

\* ~ThreadPool: worker.join() of the next worker of the vector returns
PoolDtorJoin ==
    /\ tpc[Owner] = "join"
    /\ joined < Cardinality(workers)
    /\ tpc[joined + 1] = "exited"
    /\ joined' = joined + 1
    /\ UNCHANGED <<tasks, queueMutex, condition, stop, workers, tpc, epc, ttask, submits,
                   accepted, started, finished, refused, tpRest>>

\* ~ThreadPool: the loop over the workers is over, the destructor returns
PoolDtorReturn ==
    /\ tpc[Owner] = "join"
    /\ joined = Cardinality(workers)
    /\ tpc' = [tpc EXCEPT ![Owner] = "done"]
    /\ UNCHANGED <<tasks, queueMutex, condition, stop, workers, epc, ttask, joined, submits,
                   accepted, started, finished, refused, tpRest>>

PoolWorkerStep(w) ==
    \/ PoolWorkerLock(w)
    \/ PoolWorkerWait(w)
    \/ PoolWorkerBlock(w)
    \/ PoolWorkerWakeSpurious(w)
    \/ PoolWorkerRelock(w)
    \/ PoolWorkerCheck(w)
    \/ PoolWorkerCall(w)
    \/ TaskReturns(w)

PoolEnqueueStep(th) ==
    \/ PoolEnqueueLock(th)
    \/ PoolEnqueueEmplace(th)
    \/ PoolEnqueueNotify(th)

PoolDtorStep ==
    \/ PoolDtorStop
    \/ PoolDtorNotifyAll
    \/ PoolDtorJoin
    \/ PoolDtorReturn

TpNext ==
    \/ \E w \in workers : PoolWorkerStep(w)
    \/ \E th \in {Owner} \cup workers : PoolEnqueueStep(th)
    \/ PoolDtorStep

TpSpec == TpInit /\ [][TpNext]_vars


\* every thread that is in the worker loop, in an enqueue call or in the
\* destructor goes on, and gets the mutex it keeps asking for; whether a call
\* is made at all, and spurious wake-ups, are left open
TpFairness ==
    /\ \A w \in 1..MaxWorkers :
           SF_vars(w \in workers /\ (\/ PoolWorkerLock(w) \/ PoolWorkerWait(w)
                                     \/ PoolWorkerBlock(w) \/ PoolWorkerRelock(w)
                                     \/ PoolWorkerCheck(w) \/ PoolWorkerCall(w)
                                     \/ TaskReturns(w)))
    /\ \A th \in 0..MaxWorkers :
           WF_vars(th \in DOMAIN epc /\ (PoolEnqueueEmplace(th) \/ PoolEnqueueNotify(th)))
    /\ WF_vars(PoolDtorNotifyAll \/ PoolDtorJoin \/ PoolDtorReturn)

TpLiveSpec == TpSpec /\ TpFairness


(***************************************************************************)
(* C38  ThreadPool drains before destruction.  Every task that enqueue     *)
(* accepted is executed exactly once by one worker; the destructor returns *)
(* only after all accepted tasks have finished and all workers have        *)
(* exited; a worker exits only when stop is set and the task queue is      *)
(* empty; an enqueue attempted after stop is set throws without adding a   *)
(* task.  As stated it covers every pool, a pool of no workers included.   *)
(***************************************************************************)
\* no task is called twice, and only accepted tasks are called
CalledOnce ==
    \A id \in DOMAIN started :
        /\ started[id] <= 1
        /\ started[id] = 1 => id \in accepted
        /\ id \in finished => started[id] = 1

\* once the destructor has returned, every accepted task has finished and
\* every worker has exited
PoolDrained ==
    tpc[Owner] = "done" =>
        /\ accepted \subseteq finished
        /\ \A w \in workers : tpc[w] = "exited"

\* a worker leaves the loop only with stop set and the queue empty
ExitStep ==
    \A w \in workers :
        tpc[w] # "exited" /\ tpc'[w] = "exited" => stop /\ tasks = << >>

\* the critical section of enqueue adds exactly one task to the back of the
\* queue when stop is not set, and throws leaving the queue alone when it is
EmplaceStep ==
    \A th \in DOMAIN epc :
        epc[th] = "locked" /\ epc'[th] # "locked" =>
            IF stop
            THEN tasks' = tasks /\ accepted' = accepted /\ refused' = refused + 1
            ELSE /\ Len(tasks') = Len(tasks) + 1
                 /\ accepted' = accepted \cup {tasks'[Len(tasks')]}
                 /\ tasks'[Len(tasks')] \notin accepted
                 /\ refused' = refused

\* in the end every accepted task has finished, and a destructor that was
\* entered has returned
Settled ==
    /\ accepted \subseteq finished
    /\ stop => tpc[Owner] = "done"

====
